---- MODULE Spec2Model ----
(***************************************************************************)
(* Decision and reconciliation layer of the sales forecaster:              *)
(*   ModelEvaluator      (src/model_evaluator.py)                          *)
(*   ShipmentCalculator  (src/shipment_calculator.py)                      *)
(*   SalesForecaster     (src/forecaster.py)                               *)
(*                                                                         *)
(* Conventions                                                             *)
(*  - A float is an extended rational [n, d]: d > 0 is the finite value    *)
(*    n/d in lowest terms, 1/0 is +inf, -1/0 is -inf, 0/0 is NaN.          *)
(*    Rounding error of IEEE doubles is not modelled.                      *)
(*  - A Python string is a sequence of tokens; the delimiter "_" is a      *)
(*    token of its own, so concatenation and startswith are computed on    *)
(*    the text, not assumed.                                               *)
(*  - A Python dict is a sequence of [key, val] entries in insertion       *)
(*    order; assigning to an existing key keeps its position.              *)
(***************************************************************************)
EXTENDS Integers, Sequences, FiniteSets, TLC

\* ------------------------------------------------------------------------
\* Bounds
\* ------------------------------------------------------------------------
MaxLen == 2

\* number of evaluate_model calls in one behaviour of the store specification
MaxCalls == 3

\* rows of the forecast table and of the stock table
MaxForecastRows == 2

MaxStockRows == 2

\* rows of a table handed to the constraint passes
MaxConsRows == 2

\* number of constraint passes applied to one table
MaxPasses == 2

\* rows of the defecture list
MaxListRows == 1

\* rows of the forecast table and of the stock table of a shipment plan
MaxPlanRows == 2

\* number of save_forecast calls in one behaviour of the ledger
MaxSaves == 2

\* ------------------------------------------------------------------------
\* Floats as extended rationals
\* ------------------------------------------------------------------------
RECURSIVE GCD(_, _)
GCD(a, b) == IF b = 0 THEN a ELSE GCD(b, a % b)

IAbs(x) == IF x < 0 THEN 0 - x ELSE x

Sign(x) == IF x > 0 THEN 1 ELSE IF x < 0 THEN 0 - 1 ELSE 0

Min2(a, b) == IF a < b THEN a ELSE b

\* n/d with d >= 0, reduced; d = 0 gives +inf, -inf or NaN by the sign of n
Frac(n, d) ==
    IF d = 0 THEN [n |-> Sign(n), d |-> 0]
    ELSE LET s == Sign(d)
             g == GCD(IAbs(n), IAbs(d))
         IN  [n |-> (s * n) \div g, d |-> (s * d) \div g]

F(i) == [n |-> i, d |-> 1]

Inf == [n |-> 1, d |-> 0]

NegInf == [n |-> 0 - 1, d |-> 0]

NaN == [n |-> 0, d |-> 0]

\* np.isfinite
IsFinite(x) == x.d # 0

IsNaN(x) == x.d = 0 /\ x.n = 0

\* x < y on floats; any comparison with NaN is false
FLess(x, y) ==
    IF IsNaN(x) \/ IsNaN(y) THEN FALSE
    ELSE IF x.d = 0 /\ y.d = 0 THEN x.n < y.n
    ELSE IF x.d = 0 THEN x.n < 0
    ELSE IF y.d = 0 THEN y.n > 0
    ELSE x.n * y.d < y.n * x.d

\* arithmetic on finite floats (the callers mask non-finite values out)
FAdd(x, y) == Frac(x.n * y.d + y.n * x.d, x.d * y.d)

FSub(x, y) == Frac(x.n * y.d - y.n * x.d, x.d * y.d)

FMul(x, y) == Frac(x.n * y.n, x.d * y.d)

FDiv(x, y) == Frac(x.n * y.d, x.d * y.n)

FAbs(x) == [n |-> IAbs(x.n), d |-> x.d]

RECURSIVE FSum(_)
FSum(s) == IF s = <<>> THEN F(0) ELSE FAdd(Head(s), FSum(Tail(s)))

\* np.mean of a non-empty array
FMean(s) == FDiv(FSum(s), F(Len(s)))

\* sequences over S of length 0..n
SeqsUpTo(n, S) == UNION {[1..k -> S] : k \in 0..n}

\* ------------------------------------------------------------------------
\* Strings and dicts
\* ------------------------------------------------------------------------
\* str.startswith
StartsWith(s, prefix) ==
    /\ Len(prefix) <= Len(s)
    /\ SubSeq(s, 1, Len(prefix)) = prefix

\* Python's None where a string is expected
None == <<"<None>">>

DictKeys(dict) == {dict[i].key : i \in 1..Len(dict)}

DictGet(dict, k) == dict[CHOOSE i \in 1..Len(dict) : dict[i].key = k].val

\* an assignment that moves a key already present to the end
DictSet_MoveToEnd(dict, k, v) ==
    Append(SelectSeq(dict, LAMBDA e : e.key # k), [key |-> k, val |-> v])

\* dict[k] = v
DictSet(dict, k, v) ==
    IF k \in DictKeys(dict)
    THEN [i \in 1..Len(dict) |->
             IF dict[i].key = k THEN [key |-> k, val |-> v] ELSE dict[i]]
    ELSE Append(dict, [key |-> k, val |-> v])

\* ------------------------------------------------------------------------
\* ModelEvaluator
\* ------------------------------------------------------------------------
\* the dict returned when nothing can be scored
Sentinel == [mae |-> Inf, rmse |-> Inf, mape |-> Inf, r2 |-> NegInf]

\* np.sqrt of a finite non-negative float, kept exact as its radicand
FSqrt(x) == [sqrtOf |-> x]

\* the square of a non-negative metric value (a float or an FSqrt)
Squared(v) ==
    IF "sqrtOf" \in DOMAIN v THEN v.sqrtOf
    ELSE IF IsFinite(v) THEN FMul(v, v) ELSE v

\* a < b on metric values; an FSqrt is non-negative, so it is compared by
\* its square whenever one side is an FSqrt
MetricLess(a, b) ==
    IF "sqrtOf" \in DOMAIN a \/ "sqrtOf" \in DOMAIN b
    THEN FLess(Squared(a), Squared(b))
    ELSE FLess(a, b)

\* f"{unified_code}_{model_name}"
ResultKey(unified_code, model_name) == unified_code \o <<"_">> \o model_name

\* the mask with (y_true >= 0) in place of (y_true > 0)
MaskAt_NonNegative(y_true, y_pred, i) ==
    /\ IsFinite(y_true[i])
    /\ IsFinite(y_pred[i])
    /\ ~ FLess(y_true[i], F(0))

\* one element of: np.isfinite(y_true) & np.isfinite(y_pred) & (y_true > 0)
MaskAt(y_true, y_pred, i) ==
    /\ IsFinite(y_true[i])
    /\ IsFinite(y_pred[i])
    /\ FLess(F(0), y_true[i])

\* y[mask]
Masked(y, y_true, y_pred, min_len) ==
    LET idx == SelectSeq([i \in 1..min_len |-> i],
                         LAMBDA i : MaskAt(y_true, y_pred, i))
    IN  [j \in 1..Len(idx) |-> y[idx[j]]]

\* the metrics of the filtered arrays
Metrics(t, p) ==
    LET k      == Len(t)
        err    == [j \in 1..k |-> FSub(t[j], p[j])]
        sq     == [j \in 1..k |-> FMul(err[j], err[j])]
        mae    == FMean([j \in 1..k |-> FAbs(err[j])])
        rmse   == FSqrt(FMean(sq))
        mape   == FMul(FMean([j \in 1..k |-> FAbs(FDiv(err[j], t[j]))]), F(100))
        ss_res == FSum(sq)
        mean_t == FMean(t)
        ss_tot == FSum([j \in 1..k |->
                          FMul(FSub(t[j], mean_t), FSub(t[j], mean_t))])
        r2     == IF FLess(F(0), ss_tot)
                  THEN FSub(F(1), FDiv(ss_res, ss_tot))
                  ELSE NegInf
    IN  [mae |-> mae, rmse |-> rmse, mape |-> mape, r2 |-> r2]

\* ModelEvaluator.evaluate_model: the returned dict and the result store
evaluate_model(store, y_true, y_pred, model_name, unified_code) ==
    IF Len(y_true) = 0 \/ Len(y_pred) = 0
    THEN [ret |-> Sentinel, store |-> store]
    ELSE
    LET min_len == Min2(Len(y_true), Len(y_pred))
        t       == Masked(y_true, y_true, y_pred, min_len)
        p       == Masked(y_pred, y_true, y_pred, min_len)
    IN  IF Len(t) = 0
        THEN [ret |-> Sentinel, store |-> store]
        ELSE LET m       == Metrics(t, p)
                 results == [mae |-> m.mae, rmse |-> m.rmse, mape |-> m.mape,
                             r2 |-> m.r2, model_name |-> model_name,
                             unified_code |-> unified_code]
             IN  [ret   |-> results,
                  store |-> DictSet(store,
                                    ResultKey(unified_code, model_name),
                                    results)]

\* dict.get(metric, default)
GetMetric(v, metric, default) ==
    IF metric \in DOMAIN v THEN v[metric] ELSE default

\* min(keys, key=...) / max(keys, key=...): the scan keeps the first best
RECURSIVE ScanBest(_, _, _, _, _)
ScanBest(results, metric, isMin, i, best) ==
    IF i > Len(results) THEN best
    ELSE LET ki == GetMetric(results[i].val, metric,
                             IF isMin THEN Inf ELSE NegInf)
             kb == GetMetric(results[best].val, metric,
                             IF isMin THEN Inf ELSE NegInf)
             better == IF isMin THEN MetricLess(ki, kb) ELSE MetricLess(kb, ki)
         IN  ScanBest(results, metric, isMin, i + 1,
                      IF better THEN i ELSE best)

\* the entries select_best_model filters out of the store
ProductResults(store, unified_code) ==
    SelectSeq(store, LAMBDA e : StartsWith(e.key, unified_code \o <<"_">>))

\* ModelEvaluator.select_best_model
select_best_model(store, unified_code, metric) ==
    LET product_results == ProductResults(store, unified_code)
    IN  IF product_results = <<>> THEN None
        ELSE LET best == ScanBest(product_results, metric,
                                  metric \in {"mae", "rmse", "mape"}, 1, 1)
             IN  product_results[best].val.model_name

\* ------------------------------------------------------------------------
\* ShipmentCalculator
\* ------------------------------------------------------------------------
\* ShipmentCalculator.__init__: the default coverage coefficient 1.5
coverage_coefficient == Frac(3, 2)

\* sort orders of the group keys (pandas groupby sorts its keys)
ProductOrder == <<<<"a">>, <<"c">>>>

WarehouseOrder == <<"W1", "W2">>

LastMonth == 2

\* date.dt.to_period('M')
YearMonth(date) == date.month

\* year_month.dt.to_timestamp(): the first day of the month
ToTimestamp(year_month) == [month |-> year_month, day |-> 1]

\* column `col` of the rows of a table
Column(rows, col) == [i \in 1..Len(rows) |-> rows[i][col]]

\* forecast.groupby(['year_month', 'unified_code'])['quantity'].sum()
ForecastMonthly(forecast) ==
    LET np   == Len(ProductOrder)
        keys == [i \in 1..(LastMonth * np) |->
                    [year_month   |-> ((i - 1) \div np) + 1,
                     unified_code |-> ProductOrder[((i - 1) % np) + 1]]]
        grp(k) == SelectSeq(forecast, LAMBDA r :
                      /\ YearMonth(r.date) = k.year_month
                      /\ r.unified_code = k.unified_code)
        present == SelectSeq(keys, LAMBDA k : grp(k) # <<>>)
    IN  [i \in 1..Len(present) |->
            [year_month   |-> present[i].year_month,
             unified_code |-> present[i].unified_code,
             quantity     |-> FSum(Column(grp(present[i]), "quantity")),
             date         |-> ToTimestamp(present[i].year_month)]]

\* stocks[stocks['date'] == stocks['date'].max()]
LatestStocks(stocks) ==
    IF stocks # <<>>
    THEN LET latest_date ==
                 CHOOSE d \in {stocks[i].date : i \in 1..Len(stocks)} :
                     \A i \in 1..Len(stocks) : stocks[i].date <= d
         IN  SelectSeq(stocks, LAMBDA r : r.date = latest_date)
    ELSE stocks

\* latest_stocks.groupby(['unified_code', 'warehouse'])['stock'].sum()
StocksByProductWarehouse(latest_stocks) ==
    LET nw   == Len(WarehouseOrder)
        keys == [i \in 1..(Len(ProductOrder) * nw) |->
                    [unified_code |-> ProductOrder[((i - 1) \div nw) + 1],
                     warehouse    |-> WarehouseOrder[((i - 1) % nw) + 1]]]
        grp(k) == SelectSeq(latest_stocks, LAMBDA r :
                      /\ r.unified_code = k.unified_code
                      /\ r.warehouse = k.warehouse)
        present == SelectSeq(keys, LAMBDA k : grp(k) # <<>>)
    IN  [i \in 1..Len(present) |->
            [unified_code |-> present[i].unified_code,
             warehouse    |-> present[i].warehouse,
             stock        |-> FSum(Column(grp(present[i]), "stock"))]]

\* the share with the stock ratio left out
ProportionalShare_Whole(total_shipment_needed, stock, current_stock_total) ==
    IF stock = F(0) THEN F(0) ELSE total_shipment_needed

\* total_shipment_needed * stock / current_stock_total
ProportionalShare(total_shipment_needed, stock, current_stock_total) ==
    FDiv(FMul(total_shipment_needed, stock), current_stock_total)

\* the even share with the division left out
EvenShare_Whole(total_shipment_needed, n_warehouses) ==
    total_shipment_needed

\* total_shipment_needed / n_warehouses
EvenShare(total_shipment_needed, n_warehouses) ==
    FDiv(total_shipment_needed, F(n_warehouses))

\* the comparison with <= in place of <
BelowAverage_OrEqual(current_stock, avg_required_per_warehouse) ==
    ~ FLess(avg_required_per_warehouse, current_stock)

\* current_stock < avg_required_per_warehouse
BelowAverage(current_stock, avg_required_per_warehouse) ==
    FLess(current_stock, avg_required_per_warehouse)

\* the stock rows with the filter on the product left out
ProductStocks_All(stocks_by_product_warehouse, unified_code) ==
    stocks_by_product_warehouse

\* stocks_by_product_warehouse[... ['unified_code'] == unified_code]
ProductStocks(stocks_by_product_warehouse, unified_code) ==
    SelectSeq(stocks_by_product_warehouse,
              LAMBDA r : r.unified_code = unified_code)

\* the rows one forecast_monthly row appends to `shipments`
ShipmentRows(row, stocks_by_product_warehouse) ==
    LET product_stocks == ProductStocks(stocks_by_product_warehouse,
                                        row.unified_code)
        forecasted_sales_monthly == row.quantity
        required_stock_total ==
            FMul(forecasted_sales_monthly, coverage_coefficient)
        current_stock_total == FSum(Column(product_stocks, "stock"))
        total_shipment_needed ==
            FSub(required_stock_total, current_stock_total)
        shipment(r) ==
            IF FLess(F(0), current_stock_total)
            THEN ProportionalShare(total_shipment_needed, r.stock,
                                   current_stock_total)
            ELSE EvenShare(total_shipment_needed, Len(product_stocks))
        avg_required_per_warehouse ==
            FDiv(required_stock_total, F(Len(product_stocks)))
    IN  IF product_stocks = <<>> THEN <<>>
        ELSE IF FLess(current_stock_total, required_stock_total)
        THEN LET sel == SelectSeq(product_stocks,
                            LAMBDA r : FLess(F(0), shipment(r)))
             IN  [i \in 1..Len(sel) |->
                    [date             |-> row.date,
                     warehouse        |-> sel[i].warehouse,
                     unified_code     |-> row.unified_code,
                     forecasted_sales |-> forecasted_sales_monthly,
                     current_stock    |-> sel[i].stock,
                     required_stock   |-> required_stock_total,
                     shipment         |-> shipment(sel[i])]]
        ELSE LET sel == SelectSeq(product_stocks,
                            LAMBDA r : BelowAverage(r.stock,
                                           avg_required_per_warehouse))
             IN  [i \in 1..Len(sel) |->
                    [date             |-> row.date,
                     warehouse        |-> sel[i].warehouse,
                     unified_code     |-> row.unified_code,
                     forecasted_sales |-> forecasted_sales_monthly,
                     current_stock    |-> sel[i].stock,
                     required_stock   |-> avg_required_per_warehouse,
                     shipment         |-> FSub(avg_required_per_warehouse,
                                               sel[i].stock)]]

\* forecast['year_month'] = forecast['date'].dt.to_period('M'): the table
\* the caller passed as `forecast`, as the call leaves it
ForecastAfterCall(forecast) ==
    [i \in 1..Len(forecast) |->
        [col \in DOMAIN forecast[i] \cup {"year_month"} |->
            IF col = "year_month" THEN YearMonth(forecast[i].date)
            ELSE forecast[i][col]]]

RECURSIVE ConcatRows(_, _)
ConcatRows(forecast_monthly, stocks_by_product_warehouse) ==
    IF forecast_monthly = <<>> THEN <<>>
    ELSE ShipmentRows(Head(forecast_monthly), stocks_by_product_warehouse)
         \o ConcatRows(Tail(forecast_monthly), stocks_by_product_warehouse)

\* ShipmentCalculator.calculate_shipments: the rows of the returned table
calculate_shipments(forecast, stocks) ==
    ConcatRows(ForecastMonthly(forecast),
               StocksByProductWarehouse(LatestStocks(stocks)))

\* ------------------------------------------------------------------------
\* Forecasting methods (BaselineModel and the library-backed models)
\* ------------------------------------------------------------------------
RECURSIVE InsertSorted(_, _)
InsertSorted(s, x) ==
    IF s = <<>> THEN <<x>>
    ELSE IF FLess(x, Head(s)) THEN <<x>> \o s
    ELSE <<Head(s)>> \o InsertSorted(Tail(s), x)

RECURSIVE SortFloats(_)
SortFloats(s) ==
    IF s = <<>> THEN <<>> ELSE InsertSorted(SortFloats(Tail(s)), Head(s))

\* Series.median of a non-empty series
FMedian(s) ==
    LET srt == SortFloats(s)
        n   == Len(s)
    IN  IF n % 2 = 1 THEN srt[(n + 1) \div 2]
        ELSE FDiv(FAdd(srt[n \div 2], srt[(n \div 2) + 1]), F(2))

\* BaselineModel.fit: the fitted value of the product
BaselineFit(method, quantities) ==
    IF quantities = <<>> THEN F(0)
    ELSE IF method = "mean" THEN FMean(quantities)
    ELSE IF method = "median" THEN FMedian(quantities)
    ELSE IF method = "last" THEN quantities[Len(quantities)]
    ELSE FMean(quantities)

\* the shortest history each library-backed fit() accepts; below it the
\* product is recorded as unfitted and predict() returns zeros
MinFitLen(kind) ==
    IF kind = "sarimax" THEN 3 ELSE 2

\* fit(quantities) followed by predict(periods) of one model.  A library
\* model that was fitted predicts the value ext[kind] for every period
\* (the numbers belong to the library), clamped at zero by the wrappers.
FitPredict(entry, quantities, periods, ext) ==
    IF entry.kind = "baseline"
    THEN [i \in 1..periods |-> BaselineFit(entry.method, quantities)]
    ELSE IF Len(quantities) < MinFitLen(entry.kind)
    THEN [i \in 1..periods |-> F(0)]
    ELSE [i \in 1..periods |-> ext[entry.family]]

\* a split that rounds to the nearest row instead of truncating
SplitIdx_Rounded(n) == (n * 8 + 5) \div 10

\* int(len(data) * train_size) with the default train_size = 0.8
SplitIdx(n) == (n * 8) \div 10

\* ModelEvaluator.cross_validate with the default train_size = 0.8
cross_validate(store, quantities, entry, unified_code, ext) ==
    IF Len(quantities) < 10
    THEN [ret |-> Sentinel, store |-> store]
    ELSE
    LET split_idx == SplitIdx(Len(quantities))
        train     == SubSeq(quantities, 1, split_idx)
        test      == SubSeq(quantities, split_idx + 1, Len(quantities))
    IN  IF Len(test) = 0
        THEN [ret |-> Sentinel, store |-> store]
        ELSE IF entry.family = "linear"
        \* predict(unified_code, periods=...) lacks future_features:
        \* TypeError, caught by the except branch
        THEN [ret |-> Sentinel, store |-> store]
        ELSE evaluate_model(store, test,
                            FitPredict(entry, train, Len(test), ext),
                            entry.model_name, unified_code)

\* ------------------------------------------------------------------------
\* SalesForecaster
\* ------------------------------------------------------------------------
\* forecast_months of SalesForecaster.__init__ (default 18)
ForecastMonths == 2

\* SalesForecaster.prepare_models: the registry in insertion order, each
\* entry with the key it is registered under and its get_model_name()
prepare_models(statsmodels, prophet) ==
    LET e(name, kind, family, method, model_name) ==
            [key |-> name,
             val |-> [kind |-> kind, family |-> family, method |-> method,
                      model_name |-> model_name]]
    IN  <<e(<<"baseline", "_", "mean">>, "baseline", "baseline", "mean",
            <<"Baseline (mean)">>),
          e(<<"baseline", "_", "median">>, "baseline", "baseline", "median",
            <<"Baseline (median)">>),
          e(<<"baseline", "_", "last">>, "baseline", "baseline", "last",
            <<"Baseline (last)">>),
          e(<<"linear", "_", "regression">>, "linear", "linear", "",
            <<"Linear Regression (Feature Selection)">>),
          e(<<"binary", "_", "linear", "_", "regression">>, "binary", "linear",
            "", <<"Linear Regression (Binary Features)">>)>>
        \o (IF statsmodels
            THEN <<e(<<"arima">>, "arima", "arima", "", <<"ARIMA(1, 1, 1)">>),
                   e(<<"sarima">>, "sarima", "arima", "",
                     <<"SARIMA(1, 1, 1)x(1, 1, 1, 12)">>),
                   e(<<"sarimax">>, "sarimax", "arima", "",
                     <<"SARIMAX(1, 1, 1)x(1, 1, 1, 12)">>)>>
            ELSE <<>>)
        \o (IF prophet
            THEN <<e(<<"prophet">>, "prophet", "prophet", "", <<"Prophet">>)>>
            ELSE <<>>)

DaysPerMonth == 30

\* date + timedelta(days=k), on months of DaysPerMonth days
AddDays(date, k) ==
    LET n == (date.month - 1) * DaysPerMonth + (date.day - 1) + k
    IN  [month |-> (n \div DaysPerMonth) + 1, day |-> (n % DaysPerMonth) + 1]

\* the date of the i-th row of a product's history: consecutive days
SalesDate(i) == AddDays([month |-> 1, day |-> 1], i - 1)

\* one (product, model) iteration of forecast_sales: the forecast rows it
\* adds (none when fit/predict raised) and the result store after it
ForecastOne(store, product, quantities, e, raised, ext) ==
    IF raised
    THEN [rows |-> <<>>, store |-> store]
    ELSE
    LET forecast_values == FitPredict(e.val, quantities, ForecastMonths, ext)
        last_date       == SalesDate(Len(quantities))
        forecast_df     == [i \in 1..Len(forecast_values) |->
                               [date         |-> AddDays(last_date, i),
                                unified_code |-> product,
                                quantity     |-> forecast_values[i],
                                model_name   |-> e.key]]
    IN  [rows  |-> forecast_df,
         store |-> IF Len(quantities) > 10
                   THEN cross_validate(store, quantities, e.val, product,
                                       ext).store
                   ELSE store]

\* all_forecasts[model_name].append(forecast_df), the tables of one model
\* being concatenated in the order they were appended
AppendForecast(forecasts, key, rows) ==
    IF rows = <<>> THEN forecasts
    ELSE DictSet(forecasts, key,
                 (IF key \in DictKeys(forecasts)
                  THEN DictGet(forecasts, key) ELSE <<>>) \o rows)

\* the (product, model) iterations of forecast_sales, in loop order
Iterations(sales_data, registry) ==
    LET withData == SelectSeq(ProductOrder, LAMBDA q : sales_data[q] # <<>>)
        n        == Len(registry)
    IN  [k \in 1..(Len(withData) * n) |->
            [product |-> withData[((k - 1) \div n) + 1],
             model   |-> ((k - 1) % n) + 1]]

\* the products of all forecast tables
AllProducts(forecasts) ==
    UNION {{forecasts[i].val[k].unified_code : k \in 1..Len(forecasts[i].val)} :
           i \in 1..Len(forecasts)}

\* the rows select_best_forecasts appends for one product
BestRows(store, forecasts, product) ==
    LET best_model == select_best_model(store, product, "mape")
    IN  IF best_model # None /\ best_model # <<>>
           /\ best_model \in DictKeys(forecasts)
        THEN LET sel == SelectSeq(DictGet(forecasts, best_model),
                                  LAMBDA r : r.unified_code = product)
             IN  [k \in 1..Len(sel) |->
                     [date           |-> sel[k].date,
                      unified_code   |-> sel[k].unified_code,
                      quantity       |-> sel[k].quantity,
                      model_name     |-> sel[k].model_name,
                      selected_model |-> best_model]]
        ELSE <<>>

\* SalesForecaster.select_best_forecasts, iterating the product set in the
\* given order
RECURSIVE select_best_forecasts(_, _, _)
select_best_forecasts(store, forecasts, order) ==
    IF order = <<>> THEN <<>>
    ELSE BestRows(store, forecasts, Head(order))
         \o select_best_forecasts(store, forecasts, Tail(order))

\* ------------------------------------------------------------------------
\* Constraints (src/constraints.py)
\* A withdraw list is a table of rows [unified_code]; a defecture list is a
\* table of rows [unified_code, end_date]; a stock pool is a table of rows
\* with the fields date, unified_code and stock; box_sizes is a dict from a
\* product code, or the word 'default', to a positive integer.
\* ------------------------------------------------------------------------
default_box_size == 24

\* the key 'default' of a box_sizes dict
DefaultKey == <<"default">>

\* forecast['date'] > end_date
DateAfter(date, end_date) ==
    \/ date.month > end_date.month
    \/ date.month = end_date.month /\ date.day > end_date.day

\* the whole part plus one, also for a value that is whole already
FCeil_NextInteger(x) ==
    IF x.d = 0 THEN x ELSE F((x.n \div x.d) + 1)

\* np.ceil
FCeil(x) ==
    IF x.d = 0 THEN x ELSE F(0 - ((0 - x.n) \div x.d))

\* Constraints._get_latest_stocks: {unified_code: stock} of the latest date
\* of the pool, as a dict in the order the codes first occur
RECURSIVE GroupStockSum(_, _)
GroupStockSum(latest_stocks, acc) ==
    IF latest_stocks = <<>> THEN acc
    ELSE LET r == Head(latest_stocks)
             v == IF r.unified_code \in DictKeys(acc)
                  THEN FAdd(DictGet(acc, r.unified_code), r.stock)
                  ELSE r.stock
         IN  GroupStockSum(Tail(latest_stocks),
                           DictSet(acc, r.unified_code, v))

_get_latest_stocks(pool) ==
    IF pool = <<>> THEN <<>>
    ELSE LET latest_date ==
                 CHOOSE d \in {pool[i].date : i \in 1..Len(pool)} :
                     \A i \in 1..Len(pool) : pool[i].date <= d
             latest_stocks == SelectSeq(pool, LAMBDA r : r.date = latest_date)
         IN  GroupStockSum(latest_stocks, <<>>)

\* dict.get(unified_code, 0)
GetOrZero(dict, unified_code) ==
    IF unified_code \in DictKeys(dict) THEN DictGet(dict, unified_code)
    ELSE F(0)

\* set(list['unified_code'].unique())
ListCodes(list) == {list[i].unified_code : i \in 1..Len(list)}

\* unified_code in forecast['unified_code'].values
HasProduct(table, unified_code) ==
    \E i \in 1..Len(table) : table[i].unified_code = unified_code

\* forecast.loc[forecast['unified_code'] == unified_code, 'quantity'] = value
SetQuantity(forecast, unified_code, value) ==
    [i \in 1..Len(forecast) |->
        IF forecast[i].unified_code = unified_code
        THEN [forecast[i] EXCEPT !.quantity = value]
        ELSE forecast[i]]

\* the total with the own-warehouse pool left out
WithdrawTotal_Marketplaces(wb_total, ozon_total, our_total) ==
    FAdd(wb_total, ozon_total)

\* wb_total + ozon_total + our_total
WithdrawTotal(wb_total, ozon_total, our_total) ==
    FAdd(FAdd(wb_total, ozon_total), our_total)

\* the quantity cut by one unit in place of being zeroed
WithdrawnQuantity_Reduced(quantity) == FSub(quantity, F(1))

\* the value written for a withdrawn product
WithdrawnQuantity(quantity) == F(0)

\* the body of the loop over withdraw_codes for one code
WithdrawOne(forecast, unified_code, latest_wb_stocks, latest_ozon_stocks, latest_our_stocks) ==
    IF ~ HasProduct(forecast, unified_code) THEN forecast
    ELSE LET wb_total    == GetOrZero(latest_wb_stocks, unified_code)
             ozon_total  == GetOrZero(latest_ozon_stocks, unified_code)
             our_total   == GetOrZero(latest_our_stocks, unified_code)
             total_stock == WithdrawTotal(wb_total, ozon_total, our_total)
         IN  IF ~ FLess(F(0), total_stock) /\ ~ IsNaN(total_stock)
             THEN [i \in 1..Len(forecast) |->
                     IF forecast[i].unified_code = unified_code
                     THEN [forecast[i] EXCEPT
                              !.quantity = WithdrawnQuantity(@)]
                     ELSE forecast[i]]
             ELSE forecast

\* the loop over the set withdraw_codes; each iteration touches the rows of
\* its own code only, so the iteration order of the set does not matter
RECURSIVE WithdrawLoop(_, _, _, _, _)
WithdrawLoop(forecast, codes, latest_wb_stocks, latest_ozon_stocks, latest_our_stocks) ==
    IF codes = {} THEN forecast
    ELSE LET c == CHOOSE x \in codes : TRUE
         IN  WithdrawLoop(WithdrawOne(forecast, c, latest_wb_stocks,
                                      latest_ozon_stocks, latest_our_stocks),
                          codes \ {c}, latest_wb_stocks, latest_ozon_stocks,
                          latest_our_stocks)

\* Constraints.apply_withdraw_constraints
apply_withdraw_constraints(forecast, withdraw_list, wb_stocks, ozon_stocks, our_stocks) ==
    IF withdraw_list = <<>> THEN forecast
    ELSE WithdrawLoop(forecast, ListCodes(withdraw_list),
                      _get_latest_stocks(wb_stocks),
                      _get_latest_stocks(ozon_stocks),
                      _get_latest_stocks(our_stocks))

\* the body of the loop over the rows of defecture_list for one row
DefectureOne(forecast, defecture_row, latest_wb_stocks, latest_ozon_stocks) ==
    LET unified_code == defecture_row.unified_code
        end_date     == defecture_row.end_date
        future_dates == SelectSeq(forecast, LAMBDA r :
                            /\ r.unified_code = unified_code
                            /\ DateAfter(r.date, end_date))
        wb_total     == GetOrZero(latest_wb_stocks, unified_code)
        ozon_total   == GetOrZero(latest_ozon_stocks, unified_code)
        total_stock  == FAdd(wb_total, ozon_total)
    IN  IF ~ HasProduct(forecast, unified_code) THEN forecast
        ELSE IF Len(future_dates) = 0
                /\ ~ FLess(F(0), total_stock) /\ ~ IsNaN(total_stock)
        THEN SetQuantity(forecast, unified_code, F(0))
        ELSE forecast

RECURSIVE DefectureLoop(_, _, _, _)
DefectureLoop(forecast, defecture_list, latest_wb_stocks, latest_ozon_stocks) ==
    IF defecture_list = <<>> THEN forecast
    ELSE DefectureLoop(DefectureOne(forecast, Head(defecture_list),
                                    latest_wb_stocks, latest_ozon_stocks),
                       Tail(defecture_list), latest_wb_stocks,
                       latest_ozon_stocks)

\* Constraints.apply_defecture_constraints
apply_defecture_constraints(forecast, defecture_list, wb_stocks, ozon_stocks) ==
    IF defecture_list = <<>> THEN forecast
    ELSE DefectureLoop(forecast, defecture_list,
                       _get_latest_stocks(wb_stocks),
                       _get_latest_stocks(ozon_stocks))

\* the lookup with the 'default' entry ignored
BoxSize_NoDefault(box_sizes, unified_code) ==
    IF box_sizes # <<>> /\ unified_code \in DictKeys(box_sizes)
    THEN DictGet(box_sizes, unified_code)
    ELSE default_box_size

\* the box size of a row: the product's own, else 'default', else 24
BoxSize(box_sizes, unified_code) ==
    IF box_sizes # <<>> /\ unified_code \in DictKeys(box_sizes)
    THEN DictGet(box_sizes, unified_code)
    ELSE IF DefaultKey \in DictKeys(box_sizes)
    THEN DictGet(box_sizes, DefaultKey)
    ELSE default_box_size

\* the shipment left as it was while the box count is recorded
RoundedShipment_Unrounded(shipment, boxes, box_size) == shipment

\* rounded_shipment = boxes * box_size
RoundedShipment(shipment, boxes, box_size) == FMul(boxes, F(box_size))

\* Constraints.apply_box_constraints; box_sizes is the dict in effect (the
\* argument, or self.box_sizes when the argument is None)
apply_box_constraints(shipments, box_sizes) ==
    [i \in 1..Len(shipments) |->
        LET row      == shipments[i]
            shipment == row.shipment
            box_size == BoxSize(box_sizes, row.unified_code)
            boxes    == FCeil(FDiv(shipment, F(box_size)))
        IN  [col \in DOMAIN row \cup {"boxes"} |->
                IF col = "shipment"
                THEN RoundedShipment(shipment, boxes, box_size)
                ELSE IF col = "boxes" THEN boxes
                ELSE row[col]]]

\* the assignment that reaches the first listed row only
ZeroListed_First(shipments, codes) ==
    [i \in 1..Len(shipments) |->
        IF /\ shipments[i].unified_code \in codes
           /\ \A j \in 1..(i - 1) : shipments[j].unified_code \notin codes
        THEN [shipments[i] EXCEPT !.shipment = F(0)]
        ELSE shipments[i]]

\* shipments.loc[shipments['unified_code'].isin(codes), 'shipment'] = 0
ZeroListed(shipments, codes) ==
    [i \in 1..Len(shipments) |->
        IF shipments[i].unified_code \in codes
        THEN [shipments[i] EXCEPT !.shipment = F(0)]
        ELSE shipments[i]]

\* Constraints.apply_shipment_withdraw_constraints
apply_shipment_withdraw_constraints(shipments, withdraw_list) ==
    IF withdraw_list = <<>> THEN shipments
    ELSE ZeroListed(shipments, ListCodes(withdraw_list))

\* Constraints.apply_shipment_defecture_constraints
apply_shipment_defecture_constraints(shipments, defecture_list) ==
    IF defecture_list = <<>> THEN shipments
    ELSE ZeroListed(shipments, ListCodes(defecture_list))

\* ------------------------------------------------------------------------
\* SalesForecaster.calculate_shipments (src/forecaster.py): the shipment
\* plan of one marketplace
\* ------------------------------------------------------------------------
\* the monthly aggregation the forecaster makes before the calculation:
\* the columns date, unified_code and quantity of the grouped table
ForecastForShipment(forecast) ==
    LET forecast_monthly == ForecastMonthly(forecast)
    IN  [i \in 1..Len(forecast_monthly) |->
            [date         |-> forecast_monthly[i].date,
             unified_code |-> forecast_monthly[i].unified_code,
             quantity     |-> forecast_monthly[i].quantity]]

\* the passes with box rounding ahead of the zeroing
ShipmentPasses_BoxFirst(shipments, withdraw_list, defecture_list, box_sizes) ==
    apply_shipment_defecture_constraints(
        apply_shipment_withdraw_constraints(
            apply_box_constraints(shipments, box_sizes), withdraw_list),
        defecture_list)

\* the passes over the calculated shipments: withdraw, defecture, then boxes
ShipmentPasses(shipments, withdraw_list, defecture_list, box_sizes) ==
    apply_box_constraints(
        apply_shipment_defecture_constraints(
            apply_shipment_withdraw_constraints(shipments, withdraw_list),
            defecture_list),
        box_sizes)

\* SalesForecaster.calculate_shipments; stocks is data[marketplace_stocks]
forecaster_calculate_shipments(forecast, stocks, withdraw_list, defecture_list, box_sizes) ==
    IF stocks = <<>> THEN <<>>
    ELSE ShipmentPasses(
             calculate_shipments(ForecastForShipment(forecast), stocks),
             withdraw_list, defecture_list, box_sizes)

\* ------------------------------------------------------------------------
\* ForecastManager (src/forecast_manager.py)
\* The storage directory is a dict from file name to [content, mtime]; a
\* datetime is [day, sec] and its text form is made of the tokens of the
\* date, "_" and the time of day.
\* ------------------------------------------------------------------------
DayText == <<"20240101", "20240102">>

TimeText == <<"000001", "000002">>

\* forecast_date.strftime('%Y%m%d_%H%M%S')
StrfTime(forecast_date) ==
    <<DayText[forecast_date.day], "_", TimeText[forecast_date.sec]>>

\* f"{marketplace}_{model_name}_{date_text}.csv"
CsvFileName(marketplace, model_name, date_text) ==
    marketplace \o <<"_">> \o model_name \o <<"_">> \o date_text
    \o <<".csv">>

\* f"{marketplace}_{model_name}_{date_text}_metadata.json"
MetadataFileName(marketplace, model_name, date_text) ==
    marketplace \o <<"_">> \o model_name \o <<"_">> \o date_text
    \o <<"_", "metadata", ".json">>

\* the kind of a cell value: a Timestamp, a float or a string
CellKind(value) ==
    IF DOMAIN value = {"month", "day"} THEN "timestamp"
    ELSE IF DOMAIN value = {"n", "d"} THEN "float"
    ELSE "str"

\* forecast.to_csv(filepath, index=False): every cell becomes text
ToCsv(rows) ==
    [i \in 1..Len(rows) |->
        [col \in DOMAIN rows[i] |->
            [text |-> rows[i][col], of |-> CellKind(rows[i][col])]]]

\* the value read_csv gives a cell: the text of a number is parsed, any
\* other text stays a string (no column is parsed as a date)
ParseCell(cell) ==
    IF cell.of = "float" THEN cell.text
    ELSE IF cell.of = "str" THEN cell.text
    ELSE [str |-> cell.text]

\* pd.read_csv(filepath)
ReadCsv(content) ==
    [i \in 1..Len(content) |->
        [col \in DOMAIN content[i] |-> ParseCell(content[i][col])]]

\* json.dump(metadata, default=str) of a dict of ints and strings
JsonDump(metadata) == [json |-> metadata]

\* json.load
JsonLoad(content) == content.json

\* ForecastManager.save_forecast: the directory after the call; mtime is
\* the time of the write
save_forecast(dir, rows, model_name, marketplace, forecast_date, metadata, mtime) ==
    LET date_text == StrfTime(forecast_date)
        filename  == CsvFileName(marketplace, model_name, date_text)
        written   == DictSet(dir, filename,
                             [content |-> ToCsv(rows), mtime |-> mtime])
    IN  IF metadata # <<>>
        THEN DictSet(written,
                     MetadataFileName(marketplace, model_name, date_text),
                     [content |-> JsonDump(metadata), mtime |-> mtime])
        ELSE written

\* storage_path.glob(f"{marketplace}_{model_name}_*.csv")
GlobCsv(dir, marketplace, model_name) ==
    LET prefix == marketplace \o <<"_">> \o model_name \o <<"_">>
    IN  {k \in DictKeys(dir) :
            /\ StartsWith(k, prefix)
            /\ k[Len(k)] = ".csv"}

\* the date text that stands for an omitted forecast_date
NoDate == <<>>

\* the key that stands for "no file"
NoFile == <<>>

\* the rows of a file that read_csv cannot parse
CorruptContent == <<[corrupt |-> TRUE]>>

\* pd.read_csv raises on this content
Unparseable(content) == content = CorruptContent

\* load_forecast: the file it goes on to read, NoFile when it returns the
\* empty table before reading
LoadFileName(dir, marketplace, model_name, forecast_date) ==
    IF forecast_date # NoDate
    THEN LET filename == CsvFileName(marketplace, model_name, forecast_date)
         IN  IF filename \in DictKeys(dir) THEN filename ELSE NoFile
    ELSE LET matching == GlobCsv(dir, marketplace, model_name)
         IN  IF matching = {} THEN NoFile
             ELSE CHOOSE k \in matching :
                      \A o \in matching :
                          DictGet(dir, o).mtime <= DictGet(dir, k).mtime

\* load_forecast lets the exception of read_csv through
load_forecast_raises(dir, marketplace, model_name, forecast_date) ==
    LET filename == LoadFileName(dir, marketplace, model_name, forecast_date)
    IN  /\ filename # NoFile
        /\ Unparseable(DictGet(dir, filename).content)

\* ForecastManager.load_forecast: the table it returns when it returns
load_forecast(dir, marketplace, model_name, forecast_date) ==
    LET filename == LoadFileName(dir, marketplace, model_name, forecast_date)
    IN  IF filename = NoFile THEN <<>>
        ELSE ReadCsv(DictGet(dir, filename).content)

\* the number of "_" tokens of a name
RECURSIVE CountDelims(_)
CountDelims(s) ==
    IF s = <<>> THEN 0
    ELSE (IF Head(s) = "_" THEN 1 ELSE 0) + CountDelims(Tail(s))

\* the file name has the part _{model_name}_ before its suffix .csv
HasModelPart(k, model_name) ==
    LET part == <<"_">> \o model_name \o <<"_">>
    IN  \E i \in 1..Len(k) :
            /\ i + Len(part) - 1 <= Len(k) - 1
            /\ SubSeq(k, i, i + Len(part) - 1) = part

\* get_forecast_history: storage_path.glob(pattern), where the pattern of
\* the model name replaces the pattern of the marketplace
GlobHistory(dir, marketplace, model_name) ==
    SelectSeq([i \in 1..Len(dir) |-> dir[i].key], LAMBDA k :
        /\ k[Len(k)] = ".csv"
        /\ IF model_name # None THEN HasModelPart(k, model_name)
           ELSE IF marketplace # None
           THEN /\ StartsWith(k, marketplace \o <<"_">>)
                /\ CountDelims(SubSeq(k, Len(marketplace) + 2, Len(k))) >= 1
           ELSE CountDelims(k) >= 2)

\* filepath.stem.split('_')
RECURSIVE SplitParts(_)
SplitParts(s) ==
    IF \A i \in 1..Len(s) : s[i] # "_" THEN <<s>>
    ELSE LET i == CHOOSE j \in 1..Len(s) :
                      /\ s[j] = "_"
                      /\ \A h \in 1..(j - 1) : s[h] # "_"
         IN  <<SubSeq(s, 1, i - 1)>> \o SplitParts(SubSeq(s, i + 1, Len(s)))

\* '_'.join(parts)
RECURSIVE JoinParts(_)
JoinParts(parts) ==
    IF parts = <<>> THEN <<>>
    ELSE IF Len(parts) = 1 THEN parts[1]
    ELSE parts[1] \o <<"_">> \o JoinParts(Tail(parts))

\* the rows read from one file, with the columns taken from its name
AnnotatedRows(dir, k) ==
    LET rows  == ReadCsv(DictGet(dir, k).content)
        parts == SplitParts(SubSeq(k, 1, Len(k) - 1))
    IN  IF Len(parts) >= 3
        THEN [i \in 1..Len(rows) |->
                [col \in DOMAIN rows[i]
                         \cup {"marketplace", "model_name", "forecast_date"} |->
                    IF col = "marketplace" THEN parts[1]
                    ELSE IF col = "model_name" THEN parts[2]
                    ELSE IF col = "forecast_date"
                    THEN JoinParts(SubSeq(parts, 3, Len(parts)))
                    ELSE rows[i][col]]]
        ELSE rows

\* pd.concat of the rows of the files that could be read
RECURSIVE ConcatHistory(_, _)
ConcatHistory(dir, names) ==
    IF names = <<>> THEN <<>>
    ELSE (IF Unparseable(DictGet(dir, Head(names)).content) THEN <<>>
          ELSE AnnotatedRows(dir, Head(names)))
         \o ConcatHistory(dir, Tail(names))

\* ForecastManager.get_forecast_history
get_forecast_history(dir, marketplace, model_name, unified_code) ==
    LET result == ConcatHistory(dir, GlobHistory(dir, marketplace, model_name))
    IN  IF unified_code # None
        THEN SelectSeq(result, LAMBDA r : r.unified_code = unified_code)
        ELSE result

\* the file each row of get_forecast_history was read from
RECURSIVE RowOrigins(_, _)
RowOrigins(dir, names) ==
    IF names = <<>> THEN <<>>
    ELSE (IF Unparseable(DictGet(dir, Head(names)).content) THEN <<>>
          ELSE [i \in 1..Len(DictGet(dir, Head(names)).content) |->
                   [file |-> Head(names),
                    unified_code |->
                        ReadCsv(DictGet(dir, Head(names)).content)[i]
                            .unified_code]])
         \o RowOrigins(dir, Tail(names))

HistoryOrigins(dir, marketplace, model_name, unified_code) ==
    LET origins == RowOrigins(dir, GlobHistory(dir, marketplace, model_name))
        kept    == IF unified_code # None
                   THEN SelectSeq(origins,
                                  LAMBDA r : r.unified_code = unified_code)
                   ELSE origins
    IN  [i \in 1..Len(kept) |-> kept[i].file]

\* ForecastManager.get_forecast_metadata
get_forecast_metadata(dir, marketplace, model_name, forecast_date) ==
    LET filename == MetadataFileName(marketplace, model_name, forecast_date)
    IN  IF filename \in DictKeys(dir)
        THEN JsonLoad(DictGet(dir, filename).content)
        ELSE <<>>

\* ------------------------------------------------------------------------
\* State
\* ------------------------------------------------------------------------
VARIABLES
    evaluation_results, \* ModelEvaluator.evaluation_results
    ret,                \* what the last evaluate_model call returned
    call,               \* the last call: operation and identifiers
    everStored,         \* (product, model) pairs a result was stored for
    sentinelLast,       \* pairs whose latest evaluation returned the sentinel
    ncalls,             \* number of evaluate_model calls made so far
    y_true,             \* arguments of the evaluate_model call under test
    y_pred,
    forecast,           \* rows of the forecast table (date, unified_code, quantity)
    stocks,             \* rows of the stock table (date, warehouse, unified_code, stock)
    shipments,          \* rows of the shipment table
    shipPc,             \* position of the shipment pipeline
    sales,              \* sales history (quantities by day) of each product
    installed,          \* which optional libraries can be imported
    models,             \* SalesForecaster.models
    all_forecasts,      \* {model key: forecast rows} returned by forecast_sales
    best_forecast,      \* rows returned by select_best_forecasts
    ext,                \* what the fitted library models of this run predict
    pos,                \* forecast_sales: index of the next loop iteration
    orchPc,             \* position of the forecasting run
    withdraw_list,      \* data['withdraw']: rows (unified_code)
    defecture_list,     \* data['defecture']: rows (unified_code, end_date)
    wb_stocks,          \* data['wb_stocks']: rows (date, unified_code, stock)
    ozon_stocks,        \* data['ozon_stocks']
    our_stocks,         \* data['our_stocks']
    box_sizes,          \* Constraints.box_sizes
    table_in,           \* the table handed to the first constraint pass
    table_out,          \* the table returned by the last constraint pass
    passes,             \* names of the constraint passes applied, in order
    consPc,             \* which table is under constraint: forecast or shipments
    files,              \* the files of ForecastManager.storage_path
    saves,              \* the save_forecast calls made, in order
    loaded,             \* what the last ledger read returned
    undated,            \* the products none of whose sales rows has a date
    ledgerCall,         \* the last ledger call and its arguments
    ledgerRaised,       \* the last ledger call raised instead of returning
    loadedFrom          \* the file each row of the last history came from

evalVars == <<evaluation_results, ret, call, everStored, sentinelLast, ncalls,
              y_true, y_pred>>

shipVars == <<forecast, stocks, shipments, shipPc>>

orchVars == <<sales, installed, models, all_forecasts, best_forecast, ext,
              pos, orchPc, undated>>

consVars == <<withdraw_list, defecture_list, wb_stocks, ozon_stocks,
              our_stocks, box_sizes, table_in, table_out, passes, consPc>>

ledgerVars == <<files, saves, loaded, ledgerCall, ledgerRaised, loadedFrom>>

vars == <<evalVars, shipVars, orchVars, consVars, ledgerVars>>

\* no table has been handed to the constraint passes
ConsIdle ==
    /\ withdraw_list = <<>>
    /\ defecture_list = <<>>
    /\ wb_stocks = <<>>
    /\ ozon_stocks = <<>>
    /\ our_stocks = <<>>
    /\ box_sizes = <<>>
    /\ table_in = <<>>
    /\ table_out = <<>>
    /\ passes = <<>>
    /\ consPc = "idle"

\* the ledger directory is empty and has not been used
LedgerIdle ==
    /\ files = <<>>
    /\ saves = <<>>
    /\ loaded = <<>>
    /\ ledgerCall = [op |-> "none"]
    /\ ledgerRaised = FALSE
    /\ loadedFrom = <<>>

\* no forecasting run has been set up
OrchIdle ==
    /\ sales = <<>>
    /\ installed = [statsmodels |-> FALSE, prophet |-> FALSE]
    /\ models = <<>>
    /\ all_forecasts = <<>>
    /\ best_forecast = <<>>
    /\ ext = <<>>
    /\ pos = 0
    /\ orchPc = "idle"
    /\ undated = {}

\* the shipment pipeline has not been given any table
ShipIdle ==
    /\ forecast = <<>>
    /\ stocks = <<>>
    /\ shipments = <<>>
    /\ shipPc = "idle"

NoRet == [none |-> TRUE]

NoCall == [op |-> "none", unified_code |-> <<>>, model_name |-> <<>>]

\* identifiers the evaluator is called with; "_" may occur inside them
Products == {<<"a">>, <<"a", "_", "b">>}

ModelNames == {<<"m">>, <<"b", "_", "m">>}

\* identifiers without the delimiter
PlainProducts == {<<"a">>, <<"c">>}

PlainModels == {<<"m">>, <<"n">>}

MetricNames == {"mae", "rmse", "mape", "r2"}

\* arrays the evaluator is called with in the store specification
EvalTrue == {<<>>, <<F(0)>>, <<F(1), F(2)>>}

EvalPred == {<<F(1), F(2)>>, <<F(2), F(1)>>}

\* values of the arrays in the metric specification
FloatVals == {F(0 - 1), F(0), F(1), F(2), NaN, Inf}

IsResult(r) == "model_name" \in DOMAIN r

\* ------------------------------------------------------------------------
\* Specification of the result store: any sequence of evaluate_model calls
\* ------------------------------------------------------------------------
InitEval ==
    /\ evaluation_results = <<>>
    /\ ret = NoRet
    /\ call = NoCall
    /\ everStored = {}
    /\ sentinelLast = {}
    /\ ncalls = 0
    /\ y_true = <<>>
    /\ y_pred = <<>>
    /\ ShipIdle
    /\ OrchIdle
    /\ ConsIdle
    /\ LedgerIdle

\* one evaluate_model call with identifiers drawn from the given sets
EvaluateWith(Ps, Ms) ==
    /\ ncalls < MaxCalls
    /\ ncalls' = ncalls + 1
    /\ \E p \in Ps, m \in Ms, yt \in EvalTrue, yp \in EvalPred :
        LET r == evaluate_model(evaluation_results, yt, yp, m, p)
        IN  /\ evaluation_results' = r.store
            /\ ret' = r.ret
            /\ call' = [op |-> "evaluate_model", unified_code |-> p,
                        model_name |-> m]
            /\ everStored' = IF IsResult(r.ret)
                             THEN everStored \cup {<<p, m>>}
                             ELSE everStored
            /\ sentinelLast' = IF IsResult(r.ret)
                               THEN sentinelLast \ {<<p, m>>}
                               ELSE sentinelLast \cup {<<p, m>>}
            /\ UNCHANGED <<y_true, y_pred, shipVars, orchVars, consVars,
                   ledgerVars>>

Evaluate == EvaluateWith(Products, ModelNames)

EvaluatePlain == EvaluateWith(PlainProducts, PlainModels)

NextEval == Evaluate

SpecEval == InitEval /\ [][NextEval]_vars

\* the same with identifiers that do not contain the delimiter
NextEvalPlain == EvaluatePlain

SpecEvalPlain == InitEval /\ [][NextEvalPlain]_vars

\* ------------------------------------------------------------------------
\* Specification of the metric function: one evaluate_model call on arrays
\* drawn from all sequences of up to MaxLen values
\* ------------------------------------------------------------------------
InitMetric ==
    /\ evaluation_results = <<>>
    /\ ret = NoRet
    /\ call = NoCall
    /\ everStored = {}
    /\ sentinelLast = {}
    /\ ncalls = 0
    /\ y_true \in SeqsUpTo(MaxLen, FloatVals)
    /\ y_pred \in SeqsUpTo(MaxLen, FloatVals)
    /\ ShipIdle
    /\ OrchIdle
    /\ ConsIdle
    /\ LedgerIdle

EvaluateArrays ==
    /\ call.op = "none"
    /\ ncalls' = ncalls + 1
    /\ \E p \in {<<"a">>}, m \in {<<"m">>} :
        LET r == evaluate_model(evaluation_results, y_true, y_pred, m, p)
        IN  /\ evaluation_results' = r.store
            /\ ret' = r.ret
            /\ call' = [op |-> "evaluate_model", unified_code |-> p,
                        model_name |-> m]
            /\ everStored' = IF IsResult(r.ret) THEN {<<p, m>>} ELSE {}
            /\ sentinelLast' = IF IsResult(r.ret) THEN {} ELSE {<<p, m>>}
            /\ UNCHANGED <<y_true, y_pred, shipVars, orchVars, consVars,
                   ledgerVars>>

NextMetric == EvaluateArrays

SpecMetric == InitMetric /\ [][NextMetric]_vars

\* ------------------------------------------------------------------------
\* Claims about the result store
\* ------------------------------------------------------------------------
\* the stored result of a pair, as a sequence of zero or one element
StoredResult(store, pm) ==
    LET k == ResultKey(pm[1], pm[2])
    IN  IF k \in DictKeys(store) THEN <<DictGet(store, k)>> ELSE <<>>

\* the results in the store that were computed for product p
OwnResults(store, p) ==
    {store[i].val : i \in {j \in 1..Len(store) : store[j].val.unified_code = p}}

\* C2: select_best never returns a model whose latest evaluation for the
\* product returned the sentinel while another model of the product has a
\* latest evaluation with a valid point.
C2_NeverPicksUnscored ==
    \A p \in Products \cup PlainProducts, metric \in MetricNames :
        LET b == select_best_model(evaluation_results, p, metric)
        IN  ~ /\ <<p, b>> \in sentinelLast
              /\ \E m \in (ModelNames \cup PlainModels) \ {b} :
                    <<p, m>> \in everStored \ sentinelLast

\* C3: after every evaluate call the store's entry for (p, m) is the
\* result the call returned.
C3_StoreHoldsReturned ==
    call.op = "evaluate_model" =>
        StoredResult(evaluation_results,
                     <<call.unified_code, call.model_name>>) = <<ret>>

\* C4: an evaluate call for one pair never creates, overwrites or removes
\* the stored result of another pair.
C4_NoCrossPairEffect ==
    [][\A pm \in (Products \cup PlainProducts) \X (ModelNames \cup PlainModels) :
          pm # <<call'.unified_code, call'.model_name>> =>
              StoredResult(evaluation_results', pm)
                  = StoredResult(evaluation_results, pm)]_vars

\* C5: select_best returns none when nothing was stored for the product,
\* and a returned model is one that was evaluated for that product.
C5_NoneWithoutResults ==
    \A p \in Products \cup PlainProducts, metric \in MetricNames :
        LET b == select_best_model(evaluation_results, p, metric)
        IN  /\ (\A m \in ModelNames \cup PlainModels : <<p, m>> \notin everStored) => b = None
            /\ b # None => <<p, b>> \in everStored

\* C6: for a product with stored results, select_best returns a model whose
\* stored metric is the minimum (mae, rmse, mape) or the maximum (r2) over
\* the stored results of that product.
C6_PicksExtremum ==
    \A p \in Products \cup PlainProducts, metric \in MetricNames :
        LET own == OwnResults(evaluation_results, p)
            b   == select_best_model(evaluation_results, p, metric)
        IN  own # {} =>
              \E v \in own :
                 /\ v.model_name = b
                 /\ \A w \in own :
                       IF metric = "r2"
                       THEN ~ MetricLess(v[metric], w[metric])
                       ELSE ~ MetricLess(w[metric], v[metric])

\* ------------------------------------------------------------------------
\* Claims about the metric function
\* ------------------------------------------------------------------------
\* a position of the truncated arrays that can be scored
ValidPoint(i) ==
    /\ i \in DOMAIN y_true /\ i \in DOMAIN y_pred
    /\ y_true[i].d # 0 /\ y_true[i].n > 0
    /\ y_pred[i].d # 0

\* C7: evaluate returns the sentinel whenever, after truncation to the
\* common length, no position has a finite actual > 0 with a finite
\* prediction (also when either array is empty).
C7_SentinelWhenUnscoreable ==
    (call.op = "evaluate_model"
        /\ ~ \E i \in DOMAIN y_true \cup DOMAIN y_pred : ValidPoint(i))
        => ret = Sentinel

\* arrays with a positive actual against a non-finite prediction, and a
\* scoreable pair that truncation cuts off
C7_Witness ==
    /\ call.op = "evaluate_model"
    /\ Len(y_true) = 2 /\ Len(y_pred) = 1
    /\ y_true[1] = F(1) /\ y_pred[1] = NaN
    /\ y_true[2] = F(2)
    /\ ret = Sentinel

\* ------------------------------------------------------------------------
\* Specification of the shipment calculation: one calculate_shipments call
\* on tables drawn from bounded sets of rows
\* ------------------------------------------------------------------------
\* the rows a forecast table is drawn from
ForecastRowSeq ==
    LET row(m, d, p, q) == [date |-> [month |-> m, day |-> d],
                            unified_code |-> p, quantity |-> F(q)]
    IN  <<row(1, 1, <<"a">>, 40), row(1, 1, <<"a">>, 100),
          row(1, 15, <<"a">>, 40), row(2, 1, <<"a">>, 100),
          row(1, 1, <<"c">>, 40), row(1, 1, <<"c">>, 100),
          row(1, 15, <<"c">>, 40), row(2, 1, <<"c">>, 100)>>

\* the rows a stock table is drawn from: two snapshot dates, two warehouses
StockRowSeq ==
    LET qtys == <<F(0), F(30), F(70)>>
        rowsA == [i \in 1..12 |->
                    [date         |-> ((i - 1) \div 6) + 1,
                     warehouse    |-> WarehouseOrder[(((i - 1) \div 3) % 2) + 1],
                     unified_code |-> <<"a">>,
                     stock        |-> qtys[((i - 1) % 3) + 1]]]
        rowsC == [i \in 1..4 |->
                    [date         |-> ((i - 1) \div 2) + 1,
                     warehouse    |-> WarehouseOrder[((i - 1) % 2) + 1],
                     unified_code |-> <<"c">>,
                     stock        |-> F(30)]]
    IN  rowsA \o rowsC

\* tables of up to n rows; the calculation groups and sorts its input, so
\* one row order per multiset of rows is enough
Tables(rowSeq, n) ==
    UNION {{[j \in 1..k |-> rowSeq[idx[j]]] :
              idx \in {f \in [1..k -> 1..Len(rowSeq)] :
                          \A j \in 1..(k - 1) : f[j] <= f[j + 1]}} :
           k \in 0..n}

EvalIdle ==
    /\ evaluation_results = <<>>
    /\ ret = NoRet
    /\ call = NoCall
    /\ everStored = {}
    /\ sentinelLast = {}
    /\ ncalls = 0
    /\ y_true = <<>>
    /\ y_pred = <<>>

InitShip ==
    /\ EvalIdle
    /\ OrchIdle
    /\ ConsIdle
    /\ LedgerIdle
    /\ forecast \in Tables(ForecastRowSeq, MaxForecastRows)
    /\ stocks \in Tables(StockRowSeq, MaxStockRows)
    /\ shipments = <<>>
    /\ shipPc = "loaded"

CalculateShipments ==
    /\ shipPc = "loaded"
    /\ shipments' = calculate_shipments(forecast, stocks)
    /\ forecast' = ForecastAfterCall(forecast)
    /\ shipPc' = "calculated"
    /\ UNCHANGED <<stocks, evalVars, orchVars, consVars, ledgerVars>>

NextShip == CalculateShipments

SpecShip == InitShip /\ [][NextShip]_vars

\* ------------------------------------------------------------------------
\* Claims about the shipment calculation
\* ------------------------------------------------------------------------
\* per-warehouse current stock of a product, as the calculation sees it
CurrentStocks(unified_code) ==
    SelectSeq(StocksByProductWarehouse(LatestStocks(stocks)),
              LAMBDA r : r.unified_code = unified_code)

CurrentTotal(unified_code) == FSum(Column(CurrentStocks(unified_code), "stock"))

\* monthly demand * coverage coefficient
RequiredTotal(g) == FMul(g.quantity, Frac(3, 2))

\* the shipment rows of one (product, month)
RowsOf(g) ==
    SelectSeq(shipments, LAMBDA r :
        r.date = g.date /\ r.unified_code = g.unified_code)

RowsOfWarehouse(g, w) == SelectSeq(RowsOf(g), LAMBDA r : r.warehouse = w)

MonthlyGroups ==
    {ForecastMonthly(forecast)[i] : i \in 1..Len(ForecastMonthly(forecast))}

WarehousesOf(unified_code) ==
    {CurrentStocks(unified_code)[i] :
        i \in 1..Len(CurrentStocks(unified_code))}

\* C8: with 0 < current_total < required_total every warehouse receives
\* (required_total - current_total) * stock_w / current_total, a warehouse
\* whose share is zero has no row, and the shipments of the (product, month)
\* sum to required_total - current_total.
C8_ProportionalShipments ==
    shipPc = "calculated" =>
      \A g \in MonthlyGroups :
        LET cur == CurrentTotal(g.unified_code)
            req == RequiredTotal(g)
        IN  (FLess(F(0), cur) /\ FLess(cur, req)) =>
              /\ \A s \in WarehousesOf(g.unified_code) :
                    LET rows == RowsOfWarehouse(g, s.warehouse)
                        want == FDiv(FMul(FSub(req, cur), s.stock), cur)
                    IN  IF s.stock = F(0) THEN rows = <<>>
                        ELSE Len(rows) = 1 /\ rows[1].shipment = want
              /\ \A i, j \in 1..Len(RowsOf(g)) :
                    FMul(RowsOf(g)[i].shipment, RowsOf(g)[j].current_stock)
                      = FMul(RowsOf(g)[j].shipment, RowsOf(g)[i].current_stock)
              /\ FSum(Column(RowsOf(g), "shipment")) = FSub(req, cur)

C8_Witness ==
    /\ shipPc = "calculated"
    /\ \E g \in MonthlyGroups :
          /\ CurrentTotal(g.unified_code) = F(100)
          /\ RequiredTotal(g) = F(150)
          /\ Len(RowsOf(g)) = 2
          /\ RowsOf(g)[1].shipment = F(15)
          /\ RowsOf(g)[2].shipment = F(35)

\* C9: with current_total = 0 and required_total > 0 every warehouse of the
\* product receives required_total / warehouse_count, and the shipments sum
\* to the shortfall.
C9_EvenSplit ==
    shipPc = "calculated" =>
      \A g \in MonthlyGroups :
        LET cur == CurrentTotal(g.unified_code)
            req == RequiredTotal(g)
            n   == Cardinality(WarehousesOf(g.unified_code))
        IN  (n > 0 /\ cur = F(0) /\ FLess(F(0), req)) =>
              /\ \A s \in WarehousesOf(g.unified_code) :
                    LET rows == RowsOfWarehouse(g, s.warehouse)
                    IN  Len(rows) = 1 /\ rows[1].shipment = FDiv(req, F(n))
              /\ Len(RowsOf(g)) = n
              /\ FSum(Column(RowsOf(g), "shipment")) = FSub(req, cur)

C9_Witness ==
    /\ shipPc = "calculated"
    /\ \E g \in MonthlyGroups :
          /\ Cardinality(WarehousesOf(g.unified_code)) = 2
          /\ CurrentTotal(g.unified_code) = F(0)
          /\ Len(RowsOf(g)) = 2
          /\ RowsOf(g)[1].shipment = RowsOf(g)[2].shipment
          /\ FLess(F(0), RowsOf(g)[1].shipment)

\* C10: with current_total >= required_total a warehouse has a shipment row
\* if and only if its stock is strictly below required_total /
\* warehouse_count, the row's shipment is that share minus its stock, and
\* no other row exists for the (product, month).
C10_BalancingPass ==
    shipPc = "calculated" =>
      \A g \in MonthlyGroups :
        LET cur == CurrentTotal(g.unified_code)
            req == RequiredTotal(g)
            n   == Cardinality(WarehousesOf(g.unified_code))
        IN  (n > 0 /\ ~ FLess(cur, req)) =>
              /\ \A s \in WarehousesOf(g.unified_code) :
                    LET rows == RowsOfWarehouse(g, s.warehouse)
                        avg  == FDiv(req, F(n))
                    IN  IF FLess(s.stock, avg)
                        THEN /\ Len(rows) = 1
                             /\ rows[1].shipment = FSub(avg, s.stock)
                        ELSE rows = <<>>
              /\ \A i \in 1..Len(RowsOf(g)) :
                    \E s \in WarehousesOf(g.unified_code) :
                        s.warehouse = RowsOf(g)[i].warehouse

C10_Witness ==
    /\ shipPc = "calculated"
    /\ \E g \in MonthlyGroups :
          /\ Cardinality(WarehousesOf(g.unified_code)) = 2
          /\ ~ FLess(CurrentTotal(g.unified_code), RequiredTotal(g))
          /\ Len(RowsOf(g)) = 1
          /\ RowsOf(g)[1].current_stock = F(0)
          /\ RowsOf(g)[1].shipment = F(30)
          /\ \E s \in WarehousesOf(g.unified_code) : s.stock = F(70)

\* ------------------------------------------------------------------------
\* Specification of a forecasting run: prepare_models, forecast_sales,
\* select_best_forecasts
\* ------------------------------------------------------------------------
\* histories: none, too short to evaluate, eleven days whose held-out
\* tail is positive, eleven days whose held-out tail is zero
Histories ==
    LET train == <<F(1), F(1), F(1), F(1), F(2), F(2), F(2), F(4)>>
    IN  {<<>>,
         <<F(2), F(2), F(2), F(2), F(2)>>,
         train \o <<F(2), F(2), F(2)>>,
         train \o <<F(0), F(0), F(0)>>}

\* the model keys whose library fit/predict may raise in forecast_sales
Failable ==
    {<<"linear", "_", "regression">>,
     <<"binary", "_", "linear", "_", "regression">>}

\* what a fitted library model predicts
ExtPredVals == {F(0), F(2)}

Families == {"linear", "arima", "prophet"}

\* all orders in which a set can be iterated
Orders(S) ==
    {f \in [1..Cardinality(S) -> S] :
        \A i, j \in 1..Cardinality(S) : i # j => f[i] # f[j]}

InitOrch ==
    /\ EvalIdle
    /\ ShipIdle
    /\ ConsIdle
    /\ LedgerIdle
    /\ sales \in [{<<"a">>, <<"c">>} -> Histories]
    /\ installed \in [statsmodels : BOOLEAN, prophet : BOOLEAN]
    /\ ext \in [Families -> ExtPredVals]
    /\ undated \in {{}, {<<"a">>}, {<<"c">>}}
    /\ models = <<>>
    /\ all_forecasts = <<>>
    /\ best_forecast = <<>>
    /\ pos = 0
    /\ orchPc = "new"

PrepareModels ==
    /\ orchPc = "new"
    /\ models' = prepare_models(installed.statsmodels, installed.prophet)
    /\ orchPc' = "prepared"
    /\ pos' = 1
    /\ UNCHANGED <<sales, installed, ext, undated, all_forecasts,
                   best_forecast, evalVars, shipVars, consVars,
                   ledgerVars>>

\* forecast_sales: the features of a product are prepared before the loop
\* over the models and outside its try; with no date at all the last date
\* is NaT and building the future dates raises
FeaturesRaise(it, nodate) == it.model = 1 /\ it.product \in nodate

\* forecast_sales: the exception of the feature preparation leaves the
\* call, no table is returned
ForecastAbort ==
    /\ orchPc = "prepared"
    /\ pos <= Len(Iterations(sales, models))
    /\ FeaturesRaise(Iterations(sales, models)[pos], undated)
    /\ all_forecasts' = <<>>
    /\ orchPc' = "aborted"
    /\ UNCHANGED <<sales, installed, ext, undated, models, best_forecast,
                   pos, evalVars, shipVars, consVars, ledgerVars>>

\* forecast_sales: one iteration of the loops over products and models
ForecastStep ==
    /\ orchPc = "prepared"
    /\ pos <= Len(Iterations(sales, models))
    /\ ~FeaturesRaise(Iterations(sales, models)[pos], undated)
    /\ LET it == Iterations(sales, models)[pos]
           e  == models[it.model]
       IN  \E raised \in (IF e.key \in Failable THEN BOOLEAN ELSE {FALSE}) :
              LET one == ForecastOne(evaluation_results, it.product,
                                     sales[it.product], e, raised, ext)
              IN  /\ all_forecasts' = AppendForecast(all_forecasts, e.key,
                                                     one.rows)
                  /\ evaluation_results' = one.store
    /\ pos' = pos + 1
    /\ UNCHANGED <<sales, installed, ext, undated, models, best_forecast,
                   orchPc, shipVars, consVars, ledgerVars, ret, call, everStored, sentinelLast, ncalls,
                   y_true, y_pred>>

\* forecast_sales: the loops are over, the tables are returned
ForecastReturn ==
    /\ orchPc = "prepared"
    /\ pos > Len(Iterations(sales, models))
    /\ orchPc' = "forecasted"
    /\ UNCHANGED <<sales, installed, ext, undated, models, all_forecasts,
                   best_forecast, pos, evalVars, shipVars, consVars,
                   ledgerVars>>

SelectBestForecasts ==
    /\ orchPc = "forecasted"
    /\ \E order \in Orders(AllProducts(all_forecasts)) :
          best_forecast' = select_best_forecasts(evaluation_results,
                                                 all_forecasts, order)
    /\ orchPc' = "selected"
    /\ UNCHANGED <<sales, installed, ext, undated, models, all_forecasts,
                   pos, evalVars, shipVars, consVars,
                   ledgerVars>>

NextOrch ==
    \/ PrepareModels
    \/ ForecastStep
    \/ ForecastAbort
    \/ ForecastReturn
    \/ SelectBestForecasts

SpecOrch == InitOrch /\ [][NextOrch]_vars

\* ------------------------------------------------------------------------
\* Claims about the forecasting run
\* ------------------------------------------------------------------------
\* C1: for every product with a stored evaluation result, the forecast rows
\* of the model the selector returns are in the best-forecast table, tagged
\* with that model; a product is left out only when the selector returns
\* none.
C1_WinnerIsInBestTable ==
    orchPc = "selected" =>
      \A p \in AllProducts(all_forecasts) :
        LET b == select_best_model(evaluation_results, p, "mape")
        IN  /\ OwnResults(evaluation_results, p) # {} => b # None
            /\ b # None =>
                 \E i \in 1..Len(models) :
                    /\ models[i].val.model_name = b
                    /\ models[i].key \in DictKeys(all_forecasts)
                    /\ \A k \in 1..Len(DictGet(all_forecasts, models[i].key)) :
                          LET r == DictGet(all_forecasts, models[i].key)[k]
                          IN  r.unified_code = p =>
                                \E q \in 1..Len(best_forecast) :
                                   /\ best_forecast[q].unified_code = p
                                   /\ best_forecast[q].date = r.date
                                   /\ best_forecast[q].quantity = r.quantity
                                   /\ best_forecast[q].selected_model = b

\* ------------------------------------------------------------------------
\* Specification of the constraint passes: a forecast table, or a shipment
\* table, goes through any sequence of the passes that take it
\* ------------------------------------------------------------------------
\* the rows a forecast table under constraint is drawn from
ConsForecastRowSeq ==
    LET row(p, m) == [date |-> [month |-> m, day |-> 1],
                      unified_code |-> p, quantity |-> F(5)]
    IN  <<row(<<"a">>, 1), row(<<"a">>, 3), row(<<"c">>, 1), row(<<"c">>, 3)>>

\* the rows a shipment table under constraint is drawn from
ConsShipmentRowSeq ==
    LET row(p, q) == [warehouse |-> "W1", unified_code |-> p, shipment |-> q]
    IN  <<row(<<"a">>, F(100)), row(<<"a">>, Frac(5, 2)),
          row(<<"c">>, F(24)), row(<<"c">>, Frac(5, 2))>>

WithdrawLists ==
    {<<>>, <<[unified_code |-> <<"a">>]>>,
     <<[unified_code |-> <<"a">>], [unified_code |-> <<"c">>]>>}

DefectureRowSeq ==
    LET row(p, m) == [unified_code |-> p,
                      end_date |-> [month |-> m, day |-> 1]]
    IN  <<row(<<"a">>, 1), row(<<"a">>, 3), row(<<"c">>, 1)>>

\* stock pools: the wb pool has two snapshot dates
WbPools ==
    LET row(d, p, q) == [date |-> d, unified_code |-> p, stock |-> F(q)]
    IN  {<<>>,
         <<row(1, <<"a">>, 3)>>,
         <<row(2, <<"a">>, 0)>>,
         <<row(2, <<"c">>, 3)>>,
         <<row(1, <<"a">>, 3), row(2, <<"a">>, 0)>>,
         <<row(1, <<"a">>, 3), row(2, <<"c">>, 3)>>}

OzonPools ==
    {<<>>, <<[date |-> 1, unified_code |-> <<"a">>, stock |-> F(3)]>>}

OurPools ==
    {<<>>, <<[date |-> 1, unified_code |-> <<"a">>, stock |-> F(3)]>>}

BoxSizeDicts ==
    {<<>>,
     <<[key |-> <<"a">>, val |-> 10]>>,
     <<[key |-> DefaultKey, val |-> 10]>>,
     <<[key |-> <<"a">>, val |-> 8], [key |-> DefaultKey, val |-> 10]>>}

\* a forecast table with the lists and the stock pools of self.data
InitForecastCons ==
    /\ consPc = "forecast"
    /\ table_in \in Tables(ConsForecastRowSeq, MaxConsRows)
    /\ withdraw_list \in WithdrawLists
    /\ defecture_list \in Tables(DefectureRowSeq, MaxListRows)
    /\ wb_stocks \in WbPools
    /\ ozon_stocks \in OzonPools
    /\ our_stocks \in OurPools
    /\ box_sizes = <<>>

\* a shipment table with the lists and the box sizes
InitShipmentCons ==
    /\ consPc = "shipments"
    /\ table_in \in Tables(ConsShipmentRowSeq, MaxConsRows)
    /\ withdraw_list \in WithdrawLists
    /\ defecture_list \in Tables(DefectureRowSeq, MaxListRows)
    /\ wb_stocks = <<>>
    /\ ozon_stocks = <<>>
    /\ our_stocks = <<>>
    /\ box_sizes \in BoxSizeDicts

InitCons ==
    /\ EvalIdle
    /\ ShipIdle
    /\ OrchIdle
    /\ LedgerIdle
    /\ InitForecastCons \/ InitShipmentCons
    /\ table_out = table_in
    /\ passes = <<>>

\* what a constraint pass leaves alone
ConsFrame ==
    UNCHANGED <<withdraw_list, defecture_list, wb_stocks, ozon_stocks,
                our_stocks, box_sizes, table_in, consPc, evalVars, shipVars,
                orchVars, ledgerVars>>

ApplyWithdraw ==
    /\ consPc = "forecast"
    /\ Len(passes) < MaxPasses
    /\ table_out' = apply_withdraw_constraints(table_out, withdraw_list,
                        wb_stocks, ozon_stocks, our_stocks)
    /\ passes' = Append(passes, "withdraw")
    /\ ConsFrame

ApplyDefecture ==
    /\ consPc = "forecast"
    /\ Len(passes) < MaxPasses
    /\ table_out' = apply_defecture_constraints(table_out, defecture_list,
                        wb_stocks, ozon_stocks)
    /\ passes' = Append(passes, "defecture")
    /\ ConsFrame

ApplyBox ==
    /\ consPc = "shipments"
    /\ Len(passes) < MaxPasses
    /\ table_out' = apply_box_constraints(table_out, box_sizes)
    /\ passes' = Append(passes, "box")
    /\ ConsFrame

ApplyShipmentWithdraw ==
    /\ consPc = "shipments"
    /\ Len(passes) < MaxPasses
    /\ table_out' = apply_shipment_withdraw_constraints(table_out,
                        withdraw_list)
    /\ passes' = Append(passes, "shipment_withdraw")
    /\ ConsFrame

ApplyShipmentDefecture ==
    /\ consPc = "shipments"
    /\ Len(passes) < MaxPasses
    /\ table_out' = apply_shipment_defecture_constraints(table_out,
                        defecture_list)
    /\ passes' = Append(passes, "shipment_defecture")
    /\ ConsFrame

NextCons ==
    \/ ApplyWithdraw
    \/ ApplyDefecture
    \/ ApplyBox
    \/ ApplyShipmentWithdraw
    \/ ApplyShipmentDefecture

SpecCons == InitCons /\ [][NextCons]_vars

\* ------------------------------------------------------------------------
\* Box rounding
\* ------------------------------------------------------------------------
\* the step just taken is the constraint pass `name`
PassTaken(name) ==
    /\ passes' = Append(passes, name)
    /\ Len(table_out') = Len(table_out)

\* the box size the configuration gives a product: its own entry, else the
\* entry 'default', else 24
ConfiguredBox(unified_code) ==
    LET own  == {j \in 1..Len(box_sizes) : box_sizes[j].key = unified_code}
        dflt == {j \in 1..Len(box_sizes) : box_sizes[j].key = DefaultKey}
    IN  IF own # {} THEN box_sizes[CHOOSE j \in own : TRUE].val
        ELSE IF dflt # {} THEN box_sizes[CHOOSE j \in dflt : TRUE].val
        ELSE 24

\* k is the least whole number with k >= x
IsCeilOf(k, x) ==
    /\ k.d = 1
    /\ ~ FLess(k, x)
    /\ FLess(FSub(k, F(1)), x)

\* C11: apply_box_constraints replaces the shipment of each row by
\* ceil(shipment / b) * b and records boxes = ceil(shipment / b), where b is
\* the product's own box size, else the 'default' one, else 24.
C11_BoxRounding ==
    [][PassTaken("box") =>
        \A i \in 1..Len(table_out) :
            LET b == ConfiguredBox(table_out[i].unified_code)
            IN  /\ IsCeilOf(table_out'[i].boxes,
                            FDiv(table_out[i].shipment, F(b)))
                /\ table_out'[i].shipment = FMul(table_out'[i].boxes, F(b))
                /\ table_out'[i].unified_code = table_out[i].unified_code
                /\ table_out'[i].warehouse = table_out[i].warehouse]_vars

\* a shipment of 100 of a product without a configured size became 5 boxes
\* of 24, that is 120 units
C11_Witness ==
    /\ consPc = "shipments"
    /\ passes = <<"box">>
    /\ \E i \in 1..Len(table_in) :
          /\ table_in[i].shipment = F(100)
          /\ ConfiguredBox(table_in[i].unified_code) = 24
          /\ table_out[i].boxes = F(5)
          /\ table_out[i].shipment = F(120)

\* C12: box rounding is idempotent: a second application with the same
\* positive box sizes leaves every shipment and box count unchanged, and one
\* application gives a shipment that is >= the original, an exact multiple
\* of the box size, with boxes = shipment / box_size.
C12_BoxIdempotent ==
    [][PassTaken("box") =>
        /\ \A i \in 1..Len(table_out) :
              LET b == ConfiguredBox(table_out[i].unified_code)
              IN  /\ ~ FLess(table_out'[i].shipment, table_out[i].shipment)
                  /\ FDiv(table_out'[i].shipment, F(b)).d = 1
                  /\ table_out'[i].boxes = FDiv(table_out'[i].shipment, F(b))
        /\ (passes # <<>> /\ passes[Len(passes)] = "box"
               => table_out' = table_out)]_vars

\* a shipment that was not a multiple of its box size has been rounded twice
C12_Witness ==
    /\ consPc = "shipments"
    /\ passes = <<"box", "box">>
    /\ \E i \in 1..Len(table_in) :
          /\ table_in[i].shipment = Frac(5, 2)
          /\ table_out[i].shipment # table_in[i].shipment
          /\ table_out[i].shipment =
                 F(ConfiguredBox(table_in[i].unified_code))

\* ------------------------------------------------------------------------
\* Forecast-side zeroing
\* ------------------------------------------------------------------------
\* the stock of a product in the latest snapshot of a pool; 0 when the pool
\* has no record of it there
LatestPoolStock(pool, unified_code) ==
    LET latest == {i \in 1..Len(pool) :
                      \A j \in 1..Len(pool) : pool[j].date <= pool[i].date}
        own    == SelectSeq(pool, LAMBDA r :
                      /\ r.unified_code = unified_code
                      /\ \E i \in latest : pool[i].date = r.date)
    IN  FSum(Column(own, "stock"))

MarketplaceStock(unified_code) ==
    FAdd(LatestPoolStock(wb_stocks, unified_code),
         LatestPoolStock(ozon_stocks, unified_code))

\* the forecast row is dated not past the end date of an entry of its product
DefectureActive(row) ==
    \E j \in 1..Len(defecture_list) :
        /\ defecture_list[j].unified_code = row.unified_code
        /\ ~ DateAfter(row.date, defecture_list[j].end_date)

\* C13: apply_defecture_constraints zeroes the quantity of a listed product
\* on every forecast date that is not past the entry's end date whenever the
\* combined marketplace stock (wb + ozon, latest snapshot) is <= 0, also
\* when the product has other rows dated after the end date; rows dated
\* after the end date and rows of unlisted products are left unchanged.
C13_DefectureZeroesActiveDates ==
    [][PassTaken("defecture") =>
        \A i \in 1..Len(table_out) :
            /\ (DefectureActive(table_out[i])
                /\ ~ FLess(F(0), MarketplaceStock(table_out[i].unified_code)))
                   => table_out'[i].quantity = F(0)
            /\ ~ DefectureActive(table_out[i])
                   => table_out'[i] = table_out[i]]_vars

\* C14: apply_withdraw_constraints zeroes every forecast row of a product in
\* the withdraw list exactly when the sum of its latest-snapshot stock over
\* the wb, ozon and own-warehouse pools is <= 0 (a pool with no record
\* counting as 0), and leaves the quantity of every other row unchanged.
C14_WithdrawZeroesWithoutStock ==
    [][PassTaken("withdraw") =>
        \A i \in 1..Len(table_out) :
            LET p     == table_out[i].unified_code
                total == FAdd(FAdd(LatestPoolStock(wb_stocks, p),
                                   LatestPoolStock(ozon_stocks, p)),
                              LatestPoolStock(our_stocks, p))
                listed == \E j \in 1..Len(withdraw_list) :
                              withdraw_list[j].unified_code = p
            IN  IF listed /\ ~ FLess(F(0), total)
                THEN table_out'[i] = [table_out[i] EXCEPT !.quantity = F(0)]
                ELSE table_out'[i] = table_out[i]]_vars

\* one withdrawn product without stock was zeroed while a withdrawn product
\* that has stock in the own warehouse only kept its forecast
C14_Witness ==
    /\ consPc = "forecast"
    /\ passes = <<"withdraw">>
    /\ Len(withdraw_list) = 2
    /\ wb_stocks = <<>> /\ ozon_stocks = <<>> /\ our_stocks # <<>>
    /\ \E i, j \in 1..Len(table_in) :
          /\ table_in[i].unified_code = <<"c">>
          /\ table_out[i].quantity = F(0)
          /\ table_in[j].unified_code = <<"a">>
          /\ table_out[j].quantity = F(5)

\* ------------------------------------------------------------------------
\* Shipment-side zeroing, idempotence and order of the zeroing passes
\* ------------------------------------------------------------------------
\* the row with its shipment zeroed when `listed`, the row itself otherwise
ShipmentZeroedIf(listed, row) ==
    IF listed THEN [row EXCEPT !.shipment = F(0)] ELSE row

\* C15: the shipment-side passes are unconditional:
\* apply_shipment_withdraw_constraints zeroes the shipment of every row whose
\* product is in the withdraw list, apply_shipment_defecture_constraints of
\* every row whose product is in the defecture list whatever its end date,
\* and both leave the shipment of every other row unchanged.
C15_ShipmentPassesUnconditional ==
    [][/\ PassTaken("shipment_withdraw") =>
            \A i \in 1..Len(table_out) :
                table_out'[i] = ShipmentZeroedIf(
                    \E j \in 1..Len(withdraw_list) :
                        withdraw_list[j].unified_code
                            = table_out[i].unified_code,
                    table_out[i])
       /\ PassTaken("shipment_defecture") =>
            \A i \in 1..Len(table_out) :
                table_out'[i] = ShipmentZeroedIf(
                    \E j \in 1..Len(defecture_list) :
                        defecture_list[j].unified_code
                            = table_out[i].unified_code,
                    table_out[i])]_vars

\* two rows of a withdrawn product were zeroed, then the defecture pass ran
\* for a list that names the other product only
C15_Witness ==
    /\ consPc = "shipments"
    /\ passes = <<"shipment_withdraw", "shipment_defecture">>
    /\ Len(table_in) = 2
    /\ \A i \in 1..2 :
          /\ table_in[i].unified_code = <<"a">>
          /\ table_in[i].shipment # F(0)
          /\ table_out[i].shipment = F(0)
    /\ withdraw_list = <<[unified_code |-> <<"a">>]>>
    /\ defecture_list # <<>>
    /\ defecture_list[1].unified_code = <<"c">>

\* the quantity column of a row: quantity of a forecast, shipment of a
\* shipment table
Qty(row) ==
    IF "quantity" \in DOMAIN row THEN row.quantity ELSE row.shipment

ZeroingPasses ==
    {"withdraw", "defecture", "shipment_withdraw", "shipment_defecture"}

\* C16: zeroing is idempotent and monotonic: applying one of the four
\* zeroing passes twice gives the same table as applying it once, and in
\* any sequence of passes (forecast zeroing, shipment zeroing, box rounding)
\* a quantity that is zero stays zero after every later pass.
C16_ZeroingIdempotentMonotonic ==
    [][passes' # passes =>
        /\ Len(table_out') = Len(table_out)
        /\ \A i \in 1..Len(table_out) :
              Qty(table_out[i]) = F(0) => Qty(table_out'[i]) = F(0)
        /\ \A name \in ZeroingPasses :
              (/\ passes # <<>>
               /\ passes[Len(passes)] = name
               /\ passes' = Append(passes, name)) => table_out' = table_out]_vars

\* a shipment was zeroed by the defecture pass and then went through box
\* rounding
C16_Witness ==
    /\ consPc = "shipments"
    /\ passes = <<"shipment_defecture", "box">>
    /\ \E i \in 1..Len(table_in) :
          /\ table_in[i].shipment = F(100)
          /\ table_out[i].shipment = F(0)
          /\ table_out[i].boxes = F(0)

\* C17: the withdraw and defecture passes commute: withdraw then defecture
\* yields the same forecast table as defecture then withdraw, and likewise
\* for the two shipment-side passes.
C17_ZeroingPassesCommute ==
    /\ passes = <<"withdraw", "defecture">> =>
          table_out = apply_withdraw_constraints(
                          apply_defecture_constraints(table_in,
                              defecture_list, wb_stocks, ozon_stocks),
                          withdraw_list, wb_stocks, ozon_stocks, our_stocks)
    /\ passes = <<"defecture", "withdraw">> =>
          table_out = apply_defecture_constraints(
                          apply_withdraw_constraints(table_in, withdraw_list,
                              wb_stocks, ozon_stocks, our_stocks),
                          defecture_list, wb_stocks, ozon_stocks)
    /\ passes = <<"shipment_withdraw", "shipment_defecture">> =>
          table_out = apply_shipment_withdraw_constraints(
                          apply_shipment_defecture_constraints(table_in,
                              defecture_list),
                          withdraw_list)
    /\ passes = <<"shipment_defecture", "shipment_withdraw">> =>
          table_out = apply_shipment_defecture_constraints(
                          apply_shipment_withdraw_constraints(table_in,
                              withdraw_list),
                          defecture_list)

\* both passes acted: the withdraw pass zeroed the rows of one product and
\* the defecture pass those of the other
C17_Witness ==
    /\ consPc = "forecast"
    /\ passes = <<"withdraw", "defecture">>
    /\ Len(table_in) = 2
    /\ table_out[1].quantity = F(0)
    /\ table_out[2].quantity = F(0)
    /\ apply_withdraw_constraints(table_in, withdraw_list, wb_stocks,
                                  ozon_stocks, our_stocks)[2].quantity = F(5)
    /\ apply_defecture_constraints(table_in, defecture_list, wb_stocks,
                                   ozon_stocks)[1].quantity = F(5)

\* ------------------------------------------------------------------------
\* Specification of the shipment plan: one SalesForecaster.calculate_shipments
\* call on a forecast, the stocks of the marketplace, the lists and the box
\* sizes
\* ------------------------------------------------------------------------
PlanForecastRowSeq ==
    LET row(m, d, p, q) == [date |-> [month |-> m, day |-> d],
                            unified_code |-> p, quantity |-> F(q)]
    IN  <<row(1, 1, <<"a">>, 100), row(1, 15, <<"a">>, 40),
          row(1, 1, <<"c">>, 100)>>

PlanStockRowSeq ==
    LET row(d, w, p, q) == [date |-> d, warehouse |-> w, unified_code |-> p,
                            stock |-> F(q)]
    IN  <<row(1, "W1", <<"a">>, 50), row(1, "W2", <<"a">>, 0),
          row(1, "W1", <<"c">>, 30), row(2, "W2", <<"c">>, 0)>>

InitPlan ==
    /\ EvalIdle
    /\ OrchIdle
    /\ LedgerIdle
    /\ forecast \in Tables(PlanForecastRowSeq, MaxPlanRows)
    /\ stocks \in Tables(PlanStockRowSeq, MaxPlanRows)
    /\ shipments = <<>>
    /\ shipPc = "loaded"
    /\ withdraw_list \in WithdrawLists
    /\ defecture_list \in Tables(DefectureRowSeq, MaxListRows)
    /\ box_sizes \in BoxSizeDicts
    /\ wb_stocks = <<>>
    /\ ozon_stocks = <<>>
    /\ our_stocks = <<>>
    /\ table_in = <<>>
    /\ table_out = <<>>
    /\ passes = <<>>
    /\ consPc = "idle"

PlanShipments ==
    /\ shipPc = "loaded"
    /\ shipments' = forecaster_calculate_shipments(forecast, stocks,
                        withdraw_list, defecture_list, box_sizes)
    /\ shipPc' = "planned"
    /\ UNCHANGED <<forecast, stocks, evalVars, orchVars, consVars,
                   ledgerVars>>

NextPlan == PlanShipments

SpecPlan == InitPlan /\ [][NextPlan]_vars

\* C18: in the table returned by the forecaster's calculate_shipments every
\* shipment is non-negative and an exact multiple of its product's box size
\* with boxes * box_size = shipment, and is 0 for every product in the
\* withdraw or defecture list: box rounding comes after both zeroing passes.
C18_PlanRoundedAndZeroed ==
    shipPc = "planned" =>
        \A i \in 1..Len(shipments) :
            LET row == shipments[i]
                b   == ConfiguredBox(row.unified_code)
                listed == \/ \E j \in 1..Len(withdraw_list) :
                                withdraw_list[j].unified_code
                                    = row.unified_code
                          \/ \E j \in 1..Len(defecture_list) :
                                defecture_list[j].unified_code
                                    = row.unified_code
            IN  /\ ~ FLess(row.shipment, F(0))
                /\ IsFinite(row.shipment)
                /\ FDiv(row.shipment, F(b)).d = 1
                /\ FMul(row.boxes, F(b)) = row.shipment
                /\ listed => row.shipment = F(0)

\* the plan of two products: the withdrawn one has its shipment zeroed, the
\* other one is rounded from 120 up to 5 boxes of 24
C18_Witness ==
    /\ shipPc = "planned"
    /\ withdraw_list = <<[unified_code |-> <<"a">>]>>
    /\ defecture_list = <<>>
    /\ box_sizes = <<>>
    /\ \E i, j \in 1..Len(shipments) :
          /\ shipments[i].unified_code = <<"a">>
          /\ shipments[i].shipment = F(0)
          /\ shipments[i].boxes = F(0)
          /\ shipments[j].unified_code = <<"c">>
          /\ shipments[j].required_stock = F(150)
          /\ shipments[j].shipment = F(120)
          /\ shipments[j].boxes = F(5)

\* ------------------------------------------------------------------------
\* Specification of the ledger: any sequence of save_forecast,
\* load_forecast and get_forecast_metadata calls on one directory
\* ------------------------------------------------------------------------
\* (marketplace, model name) pairs the ledger is called with; "_" may occur
\* inside the names
LedgerNames ==
    {[marketplace |-> <<"wb">>, model_name |-> <<"b">>],
     [marketplace |-> <<"ozon">>, model_name |-> <<"b">>],
     [marketplace |-> <<"wb">>, model_name |-> <<"a", "_", "b">>],
     [marketplace |-> <<"wb", "_", "a">>, model_name |-> <<"b">>]}

LedgerDates == {[day |-> 1, sec |-> 1], [day |-> 1, sec |-> 2]}

\* the forecast table and the metadata handed to save_forecast; metadata
\* <<>> is None or {}
LedgerPayloads ==
    {[rows |-> <<[date |-> [month |-> 1, day |-> 1],
                  unified_code |-> <<"a">>, quantity |-> F(5)]>>,
      metadata |-> <<[key |-> <<"forecast", "_", "months">>, val |-> 18]>>],
     [rows |-> <<[date |-> [month |-> 1, day |-> 1],
                  unified_code |-> <<"a">>, quantity |-> F(7)],
                 [date |-> [month |-> 1, day |-> 1],
                  unified_code |-> <<"c">>, quantity |-> F(7)]>>,
      metadata |-> <<>>]}

\* the filters handed to get_forecast_history; None is an omitted filter
HistoryMarketplaces == {None} \cup {id.marketplace : id \in LedgerNames}

HistoryModels == {None} \cup {id.model_name : id \in LedgerNames}

HistoryProducts == {None, <<"a">>}

\* a read leaves the directory as it is, so what it returns does not depend
\* on the reads made before it: each read is taken from the state a write
\* left
AfterWrite == ledgerCall.op \in {"none", "save", "corrupt"}

InitLedger ==
    /\ EvalIdle
    /\ ShipIdle
    /\ OrchIdle
    /\ ConsIdle
    /\ LedgerIdle

SaveForecast ==
    /\ Len(saves) < MaxSaves
    /\ \E id \in LedgerNames, forecast_date \in LedgerDates,
          payload \in LedgerPayloads :
          LET c == [op |-> "save", marketplace |-> id.marketplace,
                    model_name |-> id.model_name,
                    forecast_date |-> StrfTime(forecast_date),
                    rows |-> payload.rows, metadata |-> payload.metadata]
          IN  /\ files' = save_forecast(files, payload.rows, id.model_name,
                              id.marketplace, forecast_date, payload.metadata,
                              Len(saves) + 1)
              /\ saves' = Append(saves, c)
              /\ ledgerCall' = c
    /\ loaded' = <<>>
    /\ ledgerRaised' = FALSE
    /\ loadedFrom' = <<>>
    /\ UNCHANGED <<evalVars, shipVars, orchVars, consVars>>

LoadForecast ==
    /\ AfterWrite
    /\ \E id \in LedgerNames,
          forecast_date \in {StrfTime(t) : t \in LedgerDates} \cup {NoDate} :
          /\ ledgerRaised' = load_forecast_raises(files, id.marketplace,
                                 id.model_name, forecast_date)
          /\ loaded' = IF ledgerRaised' THEN <<>>
                       ELSE load_forecast(files, id.marketplace,
                                          id.model_name, forecast_date)
          /\ ledgerCall' = [op |-> "load", marketplace |-> id.marketplace,
                            model_name |-> id.model_name,
                            forecast_date |-> forecast_date]
    /\ loadedFrom' = <<>>
    /\ UNCHANGED <<files, saves, evalVars, shipVars, orchVars, consVars>>

GetForecastHistory ==
    /\ AfterWrite
    /\ \E marketplace \in HistoryMarketplaces, model_name \in HistoryModels,
          unified_code \in HistoryProducts :
          /\ loaded' = get_forecast_history(files, marketplace, model_name,
                                            unified_code)
          /\ loadedFrom' = HistoryOrigins(files, marketplace, model_name,
                                          unified_code)
          /\ ledgerCall' = [op |-> "history", marketplace |-> marketplace,
                            model_name |-> model_name,
                            unified_code |-> unified_code]
    /\ ledgerRaised' = FALSE
    /\ UNCHANGED <<files, saves, evalVars, shipVars, orchVars, consVars>>

GetForecastMetadata ==
    /\ AfterWrite
    /\ \E id \in LedgerNames, t \in LedgerDates :
          /\ loaded' = get_forecast_metadata(files, id.marketplace,
                                             id.model_name, StrfTime(t))
          /\ ledgerCall' = [op |-> "metadata", marketplace |-> id.marketplace,
                            model_name |-> id.model_name,
                            forecast_date |-> StrfTime(t)]
    /\ ledgerRaised' = FALSE
    /\ loadedFrom' = <<>>
    /\ UNCHANGED <<files, saves, evalVars, shipVars, orchVars, consVars>>

\* the snapshot files of the directory
CsvFiles(dir) == {k \in DictKeys(dir) : k[Len(k)] = ".csv"}

\* the environment damages one snapshot file on disk; at most one file of
\* the directory is damaged at a time
CorruptFile ==
    /\ \A k \in CsvFiles(files) : ~Unparseable(DictGet(files, k).content)
    /\ \E k \in CsvFiles(files) :
          files' = DictSet(files, k, [content |-> CorruptContent,
                                      mtime |-> DictGet(files, k).mtime])
    /\ loaded' = <<>>
    /\ ledgerCall' = [op |-> "corrupt"]
    /\ ledgerRaised' = FALSE
    /\ loadedFrom' = <<>>
    /\ UNCHANGED <<saves, evalVars, shipVars, orchVars, consVars>>

NextLedger ==
    \/ SaveForecast
    \/ LoadForecast
    \/ GetForecastHistory
    \/ GetForecastMetadata
    \/ CorruptFile

SpecLedger == InitLedger /\ [][NextLedger]_vars

\* the saves made under the identity (marketplace, model name, timestamp)
SavesUnder(marketplace, model_name, forecast_date) ==
    SelectSeq(saves, LAMBDA c :
        /\ c.marketplace = marketplace
        /\ c.model_name = model_name
        /\ c.forecast_date = forecast_date)

\* C19: a saved snapshot is immutable and uniquely identified: a later save
\* under the same identity never silently replaces the stored content of
\* the first one, and the metadata stored for a snapshot is the metadata it
\* was saved with.
C19_SnapshotImmutable ==
    [][saves' # saves =>
        LET c == ledgerCall'
        IN  /\ \A k \in DictKeys(files) :
                  DictGet(files', k).content = DictGet(files, k).content
            /\ get_forecast_metadata(files', c.marketplace, c.model_name,
                                     c.forecast_date) = c.metadata]_vars

\* C20: ledger round trip: load(marketplace, model, t) returns exactly the
\* rows passed to the save made under the identity (marketplace, model, t),
\* and an empty table when no save was made under that identity, for all
\* identifier strings, those containing '_' included.
C20_LoadRoundTrip ==
    (ledgerCall.op = "load" /\ ledgerCall.forecast_date # NoDate
                            /\ ~ledgerRaised) =>
        LET made == SavesUnder(ledgerCall.marketplace, ledgerCall.model_name,
                               ledgerCall.forecast_date)
        IN  IF made = <<>> THEN loaded = <<>>
            ELSE \E i \in 1..Len(made) : loaded = made[i].rows

\* the saves made for exactly the pair (marketplace, model_name), oldest
\* first
SavesForPair(marketplace, model_name) ==
    SelectSeq(saves, LAMBDA c :
        /\ c.marketplace = marketplace
        /\ c.model_name = model_name)

\* no snapshot file has been damaged
NoneCorrupt ==
    \A k \in CsvFiles(files) : ~Unparseable(DictGet(files, k).content)

\* C21: load(marketplace, model) with the timestamp omitted returns the
\* most recently written snapshot among those saved for exactly that
\* (marketplace, model) pair, never a snapshot saved under a different
\* model or marketplace, and the empty table when no snapshot exists for
\* the pair. (Rows are compared as read_csv gives them back.)
C21_LoadLatestOfPair ==
    (ledgerCall.op = "load" /\ ledgerCall.forecast_date = NoDate
                            /\ NoneCorrupt) =>
        LET made == SavesForPair(ledgerCall.marketplace,
                                 ledgerCall.model_name)
        IN  IF made = <<>> THEN loaded = <<>>
            ELSE loaded = ReadCsv(ToCsv(made[Len(made)].rows))

\* the save that wrote the file a row of the last history was read from
SaveOfRow(i) == saves[DictGet(files, loadedFrom[i]).mtime]

\* C22: history(marketplace, model, product) returns rows only from
\* snapshots matching every supplied filter: with marketplace and model
\* both given no returned row comes from a snapshot of another marketplace
\* or another model, and with a product given only rows of that product
\* are returned.
C22_HistoryMatchesFilters ==
    ledgerCall.op = "history" =>
        \A i \in 1..Len(loaded) :
            /\ ledgerCall.marketplace # None =>
                   SaveOfRow(i).marketplace = ledgerCall.marketplace
            /\ ledgerCall.model_name # None =>
                   SaveOfRow(i).model_name = ledgerCall.model_name
            /\ ledgerCall.unified_code # None =>
                   loaded[i].unified_code = ledgerCall.unified_code

\* C23: every row returned by history is annotated with the marketplace,
\* the model name and the timestamp under which its snapshot was saved,
\* also for model names containing '_': its model_name is the model and
\* its forecast_date the timestamp of the save.
C23_HistoryAnnotation ==
    ledgerCall.op = "history" =>
        \A i \in 1..Len(loaded) :
            /\ loaded[i].marketplace = SaveOfRow(i).marketplace
            /\ loaded[i].model_name = SaveOfRow(i).model_name
            /\ loaded[i].forecast_date = SaveOfRow(i).forecast_date

\* the rows of a readable snapshot matching the filters are all among the
\* rows the last history returned
HistoryHasRowsOf(k) ==
    LET rows == ReadCsv(DictGet(files, k).content)
    IN  \A j \in 1..Len(rows) :
            (ledgerCall.unified_code # None =>
                 rows[j].unified_code = ledgerCall.unified_code) =>
                \E i \in 1..Len(loaded) :
                    /\ loadedFrom[i] = k
                    /\ \A col \in DOMAIN rows[j] : loaded[i][col] = rows[j][col]

\* the files the pattern of the last history matches
HistoryNames ==
    GlobHistory(files, ledgerCall.marketplace, ledgerCall.model_name)

\* C24: ledger read failures are never raised: a load of a missing or
\* corrupt snapshot returns an empty table, and history skips a snapshot
\* that cannot be parsed and still returns the rows of all other matching
\* snapshots.
C24_ReadsNeverRaise ==
    /\ ~ledgerRaised
    /\ ledgerCall.op = "load" =>
           LET filename == LoadFileName(files, ledgerCall.marketplace,
                               ledgerCall.model_name, ledgerCall.forecast_date)
           IN  (filename = NoFile
                    \/ Unparseable(DictGet(files, filename).content)) =>
                   loaded = <<>>
    /\ ledgerCall.op = "history" =>
           \A k \in CsvFiles(files) :
               IF Unparseable(DictGet(files, k).content)
               THEN \A i \in 1..Len(loaded) : loadedFrom[i] # k
               ELSE (\E n \in 1..Len(HistoryNames) : HistoryNames[n] = k) =>
                        HistoryHasRowsOf(k)

\* the forecast table of a model has rows of the product
HasForecast(key, product) ==
    /\ key \in DictKeys(all_forecasts)
    /\ \E k \in 1..Len(DictGet(all_forecasts, key)) :
           DictGet(all_forecasts, key)[k].unified_code = product

\* C25: per-product failures are isolated in forecast_sales: a failure
\* while processing one product (preparing its features, fitting,
\* predicting or evaluating a model) never aborts the run, and forecasts
\* are still produced for every other product and for the other models of
\* the same product.
C25_ProductFailuresIsolated ==
    /\ orchPc # "aborted"
    /\ orchPc = "forecasted" =>
           \A product \in DOMAIN sales, i \in 1..Len(models) :
               (sales[product] # <<>> /\ models[i].key \notin Failable) =>
                   HasForecast(models[i].key, product)

\* ------------------------------------------------------------------------
\* Cross-validation: ModelEvaluator.cross_validate called on its own
\* ------------------------------------------------------------------------

\* the histories handed to cross_validate: empty, shorter than ten rows,
\* of ten rows and of eleven rows
CvHistories ==
    LET train == <<F(1), F(1), F(1), F(1), F(2), F(2), F(2), F(4)>>
    IN  {<<>>,
         <<F(2), F(2), F(2), F(2), F(2)>>,
         train \o <<F(2), F(4)>>,
         train \o <<F(4), F(2), F(2)>>}

\* the models handed to cross_validate: a baseline, a regression and a
\* library model
CvModels == {<<"baseline", "_", "mean">>, <<"linear", "_", "regression">>,
             <<"arima">>}

InitCV ==
    /\ EvalIdle
    /\ ShipIdle
    /\ ConsIdle
    /\ LedgerIdle
    /\ sales = <<>>
    /\ installed = [statsmodels |-> TRUE, prophet |-> FALSE]
    /\ models = prepare_models(TRUE, FALSE)
    /\ all_forecasts = <<>>
    /\ best_forecast = <<>>
    /\ ext \in {[f \in Families |-> v] : v \in ExtPredVals}
    /\ pos = 0
    /\ orchPc = "idle"
    /\ undated = {}

CrossValidate ==
    /\ ncalls < MaxCalls
    /\ ncalls' = ncalls + 1
    /\ \E data \in CvHistories, key \in CvModels :
          LET r == cross_validate(evaluation_results, data,
                                  DictGet(models, key), <<"a">>, ext)
          IN  /\ evaluation_results' = r.store
              /\ ret' = r.ret
              /\ call' = [op |-> "cross_validate", data |-> data,
                          model |-> key, unified_code |-> <<"a">>]
    /\ UNCHANGED <<everStored, sentinelLast, y_true, y_pred, shipVars,
                   orchVars, consVars, ledgerVars>>

NextCV == CrossValidate

SpecCV == InitCV /\ [][NextCV]_vars

\* what evaluate returns, and the store it leaves, for the model fitted on
\* the first k rows of the data and asked for as many periods as there are
\* rows after them
HeldOutEvaluation(store, data, key, k) ==
    LET prefix == SubSeq(data, 1, k)
        suffix == SubSeq(data, k + 1, Len(data))
        entry  == DictGet(models, key)
    IN  evaluate_model(store, suffix,
                       FitPredict(entry, prefix, Len(suffix), ext),
                       entry.model_name, <<"a">>)

\* fit or predict of the model raises inside cross_validate
CvRaises(key) == DictGet(models, key).family = "linear"

\* the cross_validate call just made returned the sentinel and left the
\* result store as it was
CvFailedClosed == ret' = Sentinel /\ evaluation_results' = evaluation_results

\* the cross_validate call just made returned what evaluate returns on
\* the rows after the first floor(n * 0.8)
CvEvaluated ==
    LET c == call'
        r == HeldOutEvaluation(evaluation_results, c.data, c.model,
                               (Len(c.data) * 8) \div 10)
    IN  ret' = r.ret /\ evaluation_results' = r.store

\* the held-out rows of the call just made
CvHeldOut ==
    SubSeq(call'.data, (Len(call'.data) * 8) \div 10 + 1, Len(call'.data))

\* C26 as stated: cross_validate fits the model on the chronological
\* prefix of floor(n * train_fraction) rows, requests as many periods as
\* there are held-out rows and returns the result of evaluate on the
\* held-out suffix; when the held-out segment is empty or fit/predict
\* raises it returns the sentinel and leaves the result store unchanged.
C26_Original ==
    [][ncalls' # ncalls =>
        IF CvHeldOut = <<>> \/ CvRaises(call'.model)
        THEN CvFailedClosed
        ELSE CvEvaluated]_vars

\* C26 (amended): for a history of at least ten rows cross_validate fits
\* the model on the chronological prefix of floor(n * train_fraction)
\* rows, requests as many periods as there are held-out rows and returns
\* the result of evaluate on the held-out suffix; when the history has
\* fewer than ten rows, the held-out segment is empty or fit/predict
\* raises, it returns the sentinel without raising and leaves the result
\* store unchanged.
C26_CrossValidateFailsClosed ==
    [][ncalls' # ncalls =>
        IF Len(call'.data) < 10 \/ CvHeldOut = <<>> \/ CvRaises(call'.model)
        THEN CvFailedClosed
        ELSE CvEvaluated]_vars

\* a later call on eleven rows returned the metrics of the baseline on
\* the three held-out rows
C26_Witness ==
    /\ call.op = "cross_validate"
    /\ Len(call.data) = 11
    /\ call.model = <<"baseline", "_", "mean">>
    /\ ret # Sentinel
    /\ ncalls >= 2

\* ------------------------------------------------------------------------
\* Shipment calculation: products without stock records, snapshot dates
\* ------------------------------------------------------------------------

\* the rows of a table that belong to a product
RowsOfProduct(rows, product) == SelectSeq(rows, LAMBDA r : r.unified_code = product)

\* the rows of a table that belong to other products
RowsOfOthers(rows, product) ==
    SelectSeq(rows, LAMBDA r : r.unified_code # product)

\* C27: a product that has a forecast but no stock record anywhere in the
\* stock table is skipped by calculate_shipments: no shipment row is
\* emitted for it in any month, and the shipment rows of all other
\* products are the same as if that product's forecast were absent.
C27_NoStockProductSkipped ==
    shipPc = "calculated" =>
        \A i \in 1..Len(ProductOrder) :
            LET product == ProductOrder[i]
            IN  (RowsOfProduct(forecast, product) # <<>>
                     /\ RowsOfProduct(stocks, product) = <<>>) =>
                    /\ RowsOfProduct(shipments, product) = <<>>
                    /\ shipments =
                           calculate_shipments(RowsOfOthers(forecast, product),
                                               stocks)

\* product c has a forecast and no stock record, product a is shipped
C27_Witness ==
    /\ shipPc = "calculated"
    /\ RowsOfProduct(forecast, <<"c">>) # <<>>
    /\ RowsOfProduct(stocks, <<"c">>) = <<>>
    /\ RowsOfProduct(shipments, <<"a">>) # <<>>

\* C28: calculate_shipments takes each product's per-warehouse current
\* stock from the most recent snapshot date available for it: the rows of
\* older snapshots never contribute, and a product that has stock records
\* is given a current stock and is not skipped even when its records are
\* dated earlier than the latest date of other products. The rows of a
\* product are then the ones its own forecast and stock rows give.
C28_LatestSnapshotPerProduct ==
    shipPc = "calculated" =>
        \A i \in 1..Len(ProductOrder) :
            LET product == ProductOrder[i]
            IN  RowsOfProduct(shipments, product) =
                    calculate_shipments(RowsOfProduct(forecast, product),
                                        RowsOfProduct(stocks, product))

\* ------------------------------------------------------------------------
\* Selection: ties between models
\* ------------------------------------------------------------------------

\* the positions of the store whose key is a key of the product
KeysOfProduct(p) ==
    {i \in 1..Len(evaluation_results) :
        StartsWith(evaluation_results[i].key, p \o <<"_">>)}

\* the result at position i is strictly better on the metric than the one
\* at position j
StrictlyBetter(i, j, metric) ==
    LET vi == evaluation_results[i].val[metric]
        vj == evaluation_results[j].val[metric]
    IN  IF metric = "r2" THEN MetricLess(vj, vi) ELSE MetricLess(vi, vj)

\* the first inserted of the keys of the product that no other beats
FirstOfBest(p, metric) ==
    LET top == {i \in KeysOfProduct(p) :
                   \A j \in KeysOfProduct(p) : ~StrictlyBetter(j, i, metric)}
    IN  CHOOSE i \in top : \A j \in top : i <= j

\* select_best_model returns the model of the first inserted best key
TieGoesToFirstInserted ==
    \A p \in Products, metric \in MetricNames :
        KeysOfProduct(p) # {} =>
            select_best_model(evaluation_results, p, metric) =
                evaluation_results[FirstOfBest(p, metric)].val.model_name

\* an evaluate call leaves every key of the store at its position
PositionsKept ==
    /\ Len(evaluation_results') >= Len(evaluation_results)
    /\ \A i \in 1..Len(evaluation_results) :
           evaluation_results'[i].key = evaluation_results[i].key

\* C29: select_best is deterministic: what it returns for a (product,
\* metric) is fixed by the sequence of evaluate calls, and when several
\* models tie on the metric the one whose store key was inserted first is
\* returned; re-evaluating a model does not change its position.
C29_TieBreakFirstInserted ==
    [](TieGoesToFirstInserted) /\ [][PositionsKept]_vars

\* two models of product a tie on mape, the one inserted first has been
\* evaluated again after the other and is the one returned
C29_Witness ==
    /\ ncalls = 3
    /\ Len(evaluation_results) = 2
    /\ KeysOfProduct(<<"a">>) = {1, 2}
    /\ ~StrictlyBetter(1, 2, "mape")
    /\ ~StrictlyBetter(2, 1, "mape")
    /\ call.unified_code = <<"a">>
    /\ ResultKey(call.unified_code, call.model_name)
           = evaluation_results[1].key
    /\ IsResult(ret)
    /\ select_best_model(evaluation_results, <<"a">>, "mape")
           = evaluation_results[1].val.model_name

\* C30: the shipment calculation is pure with respect to its arguments
\* (as every constraint pass is): after calculate_shipments returns, the
\* forecast and stock tables passed in have the same rows, columns and
\* values as before the call.
C30_ArgumentsUnchanged ==
    [][shipPc' = "calculated" =>
          /\ forecast' = forecast
          /\ stocks' = stocks]_vars

====
